---- MODULE Spec2Model ----
(***************************************************************************)
(* A model of the cluster job orchestration core of EnzyHTP                *)
(* (enzy_htp/core/job_manager.py): ClusterJob and its fleet operations.    *)
(*                                                                         *)
(* The Cluster Interface (enzy_htp/core/clusters) and the file-system      *)
(* helpers (enzy_htp/core/file_system) are collaborators whose code is     *)
(* outside the modelled sources; they are modelled from their contract.    *)
(***************************************************************************)
EXTENDS Integers, Sequences, FiniteSets, TLC

\* ---------------------------------------------------------------- bounds
NJobs == 2         \* ClusterJob objects that exist
MaxId == 2         \* job ids issued before the direct caller stops submitting
MaxTry == 3        \* largest try_time given to run_command
MaxPolls == 3      \* polls of one wait_to_end call that are traced
NApiJobs == 1      \* jobs the direct (non-fleet) caller operates on


Jobs == 1..NJobs
MaxLen == NJobs    \* longest job list given to a fleet operation
IdCap == NJobs + MaxLen \* no run of the model needs more ids than this
Ids == 1..IdCap
None == 0          \* Python's None for job_id (the ids are 1, 2, ...)
NoDir == "NoDir"   \* Python's None for the sub_dir argument
Dir == "Dir"       \* the submission directory
NoState == <<>>    \* Python's None for last_state
NoPath == <<>>     \* Python's None for a path

\* ------------------------------------------------- Cluster Interface
\* native scheduler states (a Slurm-like backend)
Live == {"PENDING", "RUNNING"}
Natives == {"PENDING", "RUNNING", "COMPLETED", "FAILED", "TIMEOUT", "CANCELLED"}
CanonicalStates == {"pend", "run", "complete", "error", "cancel"}
TerminalStates == {"complete", "error", "cancel"}

\* the backend's map of native strings onto the canonical states
ClusterCanonical(n) ==
    CASE n = "PENDING" -> "pend"
      [] n = "RUNNING" -> "run"
      [] n = "COMPLETED" -> "complete"
      [] n = "CANCELLED" -> "cancel"
      [] OTHER -> "error"

\* ------------------------------------------------------------ paths
\* A path is <<base, suffixes>>: "base.cmd", "base_1.cmd", "base_1_1.cmd" ...
ConfPath(b) == <<b, <<>>>>
DefaultPath == ConfPath(0)     \* sub_dir + "/submit.cmd"

\* ------------------------------------------------------------ logging
Levels == <<"DEBUG", "INFO", "WARNING", "ERROR", "CRITICAL">>
LevelNo(l) == CHOOSE k \in 1..Len(Levels) : Levels[k] = l

\* The Cluster Interface instances: two of one backend and one of another;
\* NAME is the stable name of the backend.
ClusterInstances == {"accre_a", "accre_b", "local"}
DefaultCluster == "accre_a"
ClusterNAME(c) == IF c = "local" THEN "Local" ELSE "Accre"

\* no run_command call is under way
NoRun == [pc |-> "none", exe |-> "", try_time |-> 0, i |-> 0, attempts |-> <<>>,
          this_error |-> 0, sleeps |-> 0, outcome |-> "none", of |-> 0,
          log_level |-> "info",
          missing |-> {}, present |-> {}, mapper |-> {}, warned |-> FALSE]

\* no config_job call is under way
NoConfig == [pc |-> "none", commands |-> <<>>, env_settings |-> <<>>,
             res_keywords |-> <<>>, heap |-> <<>>, outcome |-> "none",
             sub_script_str |-> <<>>]

VARIABLES
    job_id,            \* [Jobs -> Ids \cup {None}]     ClusterJob.job_id
    last_state,        \* [Jobs -> NoState or <<canonical, native>>]
    sub_script_path,   \* [Jobs -> path or NoPath]      ClusterJob.sub_script_path
    native,            \* [Ids -> native state, "NONE" while the id is not issued]
    owner,             \* [Ids -> job whose script the id runs, 0 if not issued]
    files,             \* the paths that exist in the submission directory
    idLog,             \* the job-id recovery log: sequence of <<job_id, path>>
    logLevel,          \* the effective logging level
    cluster,           \* the Cluster Interface instance each job targets
    rc,                \* the EnvironmentManager and its run_command call
    cfg,               \* the config_job call and the objects it works on
    sweep,             \* jobs polled so far by the running sweep of a fleet operation
    ev,                \* the most recent ClusterJob method call and its outcome
    pc,                \* the caller's position
    waitJob,           \* the job a running wait_to_end call is about
    waitTrace,         \* canonical states polled by the running wait_to_end call
    call,              \* the fleet operation that is running ("none" if none)
    jobs,              \* its argument jobs
    array_size,        \* its argument and local array_size
    current_active_job,
    finished_job,
    inactive_job,      \* wait_to_array_end_plus only
    i,                 \* number of jobs submitted by the top-up loop
    jpos,              \* position of the seeding loop / the polling loop
    entryLive          \* jobs whose poll at entry of the plus call said pend or run

jobVars == <<job_id, last_state, sub_script_path>>
worldVars == <<native, owner, files, idLog>>
waitVars == <<waitJob, waitTrace>>
fleetVars == <<call, jobs, array_size, current_active_job, finished_job,
               inactive_job, i, jpos, entryLive>>
vars == <<job_id, last_state, sub_script_path, native, owner, files, idLog,
          logLevel, cluster, rc, cfg, sweep, ev, pc, waitJob, waitTrace, call, jobs, array_size,
          current_active_job, finished_job, inactive_job, i, jpos, entryLive>>

Issued == {id \in Ids : owner[id] # 0}
NextId == Cardinality(Issued) + 1

NoEv == [op |-> "none", job |-> 0, raised |-> FALSE, warned |-> FALSE,
         prims |-> <<>>, old_id |-> None, result |-> NoState, path |-> NoPath]

\* ------------------------------------------------- file_system helper
RECURSIVE FirstFree(_, _, _)
FirstFree(b, s, k) ==
    IF <<b, Append(s, k)>> \notin files THEN <<b, Append(s, k)>>
    ELSE FirstFree(b, s, k + 1)

\* fs.get_valid_temp_name: the path itself when free, else the first free
\* indexed variant of it
GetValidTempName(p) == IF p \notin files THEN p ELSE FirstFree(p[1], p[2], 1)

\* ------------------------------------------------- Cluster Interface
\* cluster.get_job_state(job_id) -> (canonical, native)
ClusterGetJobState(id) == <<ClusterCanonical(native[id]), native[id]>>

\* ------------------------------------------------- ClusterJob methods
\* require_job_id raises AttributeError
RequireJobIdRaises(j) == job_id[j] = None

\* what get_state() returns and stores for a job that has an id
GetStateSwapped(j) ==
    <<ClusterGetJobState(job_id[j])[2], ClusterGetJobState(job_id[j])[1]>>
GetStateResult(j) == ClusterGetJobState(job_id[j])

\* get_state(), called as itself or through is_complete(): the query and
\* the write of last_state
GetStateCall(j, op) ==
    IF RequireJobIdRaises(j)
    THEN /\ ev' = [NoEv EXCEPT !.op = op, !.job = j, !.raised = TRUE]
         /\ UNCHANGED last_state
    ELSE /\ last_state' = [last_state EXCEPT ![j] = GetStateResult(j)]
         /\ ev' = [NoEv EXCEPT !.op = op, !.job = j,
                               !.prims = <<"get_job_state">>,
                               !.old_id = job_id[j],
                               !.result = GetStateResult(j)]

GetStateEffect(j) == GetStateCall(j, "get_state")

\* submit(): the path the script is to be deployed at (before deployment)
SubmitPath(j, sd, sp) ==
    IF sd = NoDir THEN sub_script_path[j]
    ELSE IF sp = NoPath THEN GetValidTempName(DefaultPath) ELSE sp

\* _deploy_sub_script(out_path): the path the script is written to
DeployOverwrites(out_path) == out_path
DeploySubScript(out_path) == GetValidTempName(out_path)

\* submit(): the sanity check polls the job when it has an id
SubmitPollsNever(j) == FALSE
SubmitPolls(j) == job_id[j] # None

\* submit(): the sanity check raises
SubmitRefusesAnyId(j) == SubmitPolls(j)
SubmitRefusesNever(j) == SubmitPolls(j) /\ FALSE
SubmitRefuses(j) == SubmitPolls(j) /\ GetStateResult(j)[1] \in {"run", "pend"}

\* submit(): the recovery log is written only below logging level CRITICAL
RecordsJobId == LevelNo(logLevel) < LevelNo("CRITICAL")

\* _record_job_id_to_file(): append "<job_id> <sub_script_path>"
RecordOverwrites(log, id, path) == <<<<id, path>>>>
RecordJobIdToFile(log, id, path) == Append(log, <<id, path>>)

\* the id the job holds after cluster.submit_job returned id
SubmitKeepsOldId(old, id) == IF old = None THEN id ELSE old
SubmittedJobId(old, id) == id

\* submit(sub_dir, script_path), run to its end (reaches_record) or, for a
\* process that stops inside it, up to the return of cluster.submit_job
SubmitUpTo(j, sd, sp, reaches_record) ==
    LET polled == IF SubmitPolls(j) THEN GetStateResult(j) ELSE NoState
        path == SubmitPath(j, sd, sp)
        actual == DeploySubScript(path)
        id == NextId
        e == [NoEv EXCEPT !.op = "submit", !.job = j, !.old_id = job_id[j],
                          !.result = polled,
                          !.prims = IF SubmitPolls(j) THEN <<"get_job_state">>
                                    ELSE <<>>]
    IN  /\ last_state' = IF SubmitPolls(j)
                         THEN [last_state EXCEPT ![j] = polled] ELSE last_state
        /\ IF SubmitRefuses(j) \/ path = NoPath
           THEN /\ ev' = [e EXCEPT !.raised = TRUE,
                                   !.warned = SubmitPolls(j) /\ ~SubmitRefuses(j)]
                /\ UNCHANGED <<job_id, sub_script_path, native, owner, files, idLog>>
           ELSE /\ id \in Ids
                /\ files' = files \cup {actual}
                /\ sub_script_path' = [sub_script_path EXCEPT ![j] = actual]
                /\ native' = [native EXCEPT ![id] = "PENDING"]
                /\ owner' = [owner EXCEPT ![id] = j]
                /\ job_id' = [job_id EXCEPT ![j] = SubmittedJobId(job_id[j], id)]
                /\ idLog' = IF reaches_record /\ RecordsJobId
                            THEN RecordJobIdToFile(idLog, job_id'[j], actual)
                            ELSE idLog
                /\ ev' = [e EXCEPT !.warned = SubmitPolls(j),
                                   !.prims = Append(e.prims, "submit_job"),
                                   !.path = actual]

\* submit(sub_dir, script_path) as a whole
SubmitEffect(j, sd, sp) == SubmitUpTo(j, sd, sp, TRUE)

\* A path <<b, s>> is the absolute spelling of a script; <<b, s, "rel">> is
\* the same script spelled relative to the working directory.
RelPath(p) == <<p[1], p[2], "rel">>

\* os.path.abspath: joins a relative path to the working directory and
\* leaves an absolute one as it is
Abspath(p) == IF Len(p) = Len(RelPath(p)) THEN <<p[1], p[2]>> ELSE p

\* retrive_job_id(): the lines of the recovery log that name the job's script
LogHits(j) ==
    {k \in 1..Len(idLog) : Abspath(idLog[k][2]) = Abspath(sub_script_path[j])}

\* retrive_job_id(): os.path.abspath(None) raises once a line is compared
RetriveRaises(j) == idLog # <<>> /\ sub_script_path[j] = NoPath

\* retrive_job_id(): the id of the last line that names the job's script
RetrivedIdFirstLine(j) ==
    IF LogHits(j) = {} THEN job_id[j]
    ELSE idLog[CHOOSE k \in LogHits(j) : \A m \in LogHits(j) : k <= m][1]
RetrivedId(j) ==
    IF LogHits(j) = {} THEN job_id[j]
    ELSE idLog[CHOOSE k \in LogHits(j) : \A m \in LogHits(j) : m <= k][1]

\* retrive_job_id() as a whole
RetriveEffect(j) ==
    /\ ev' = [NoEv EXCEPT !.op = "retrive_job_id", !.job = j,
                          !.old_id = job_id[j], !.raised = RetriveRaises(j)]
    /\ job_id' = IF RetriveRaises(j) THEN job_id
                 ELSE [job_id EXCEPT ![j] = RetrivedId(j)]

\* ------------------------------------------------- the cluster itself
\* a job moves on in the queue: it starts, ends, fails or is cancelled
ClusterStep(id) ==
    /\ native[id] \in Live
    /\ \E n \in {"RUNNING", "COMPLETED", "FAILED", "CANCELLED"} :
          /\ \/ native[id] = "PENDING" /\ n \in {"RUNNING", "CANCELLED"}
             \/ native[id] = "RUNNING" /\ n \notin Live
          /\ native' = [native EXCEPT ![id] = n]
    /\ UNCHANGED <<job_id, last_state, sub_script_path, owner, files, idLog,
                   logLevel, cluster, rc, cfg, sweep, ev, pc, waitJob, waitTrace, fleetVars>>

\* a running job hits its wall time
ClusterTimeout(id) ==
    /\ native[id] = "RUNNING"
    /\ native' = [native EXCEPT ![id] = "TIMEOUT"]
    /\ UNCHANGED <<job_id, last_state, sub_script_path, owner, files, idLog,
                   logLevel, cluster, rc, cfg, sweep, ev, pc, waitJob, waitTrace, fleetVars>>

\* ------------------------------------------------- the direct caller
ApiJobs == 1..NApiJobs

JobSubmit(j, sd, sp) ==
    /\ pc = "idle"
    /\ NextId <= MaxId
    /\ SubmitEffect(j, sd, sp)
    /\ UNCHANGED <<logLevel, cluster, rc, cfg, sweep, pc, waitJob, waitTrace, fleetVars>>

JobGetState(j) ==
    /\ pc = "idle"
    /\ GetStateEffect(j)
    /\ UNCHANGED <<job_id, sub_script_path, native, owner, files, idLog,
                   logLevel, cluster, rc, cfg, sweep, pc, waitJob, waitTrace, fleetVars>>

\* wait_to_end: the loop ends on these canonical states
WaitEndedOnlyComplete(c) == c = "complete"
WaitEnded(c) == c \in {"complete", "error", "cancel"}

\* wait_to_end(period): the sanity check
WaitToEndCall(j) ==
    /\ pc = "idle"
    /\ waitTrace' = <<>>
    /\ ev' = [NoEv EXCEPT !.op = "wait_to_end", !.job = j,
                          !.raised = RequireJobIdRaises(j)]
    /\ pc' = IF RequireJobIdRaises(j) THEN "idle" ELSE "wait_poll"
    /\ waitJob' = IF RequireJobIdRaises(j) THEN 0 ELSE j
    /\ UNCHANGED <<job_id, last_state, sub_script_path, native, owner, files,
                   idLog, logLevel, cluster, rc, cfg, sweep, fleetVars>>

\* wait_to_end: one get_state() and the test of its result
WaitToEndPoll ==
    /\ pc = "wait_poll"
    /\ Len(waitTrace) < MaxPolls
    /\ GetStateEffect(waitJob)
    /\ waitTrace' = Append(waitTrace, GetStateResult(waitJob)[1])
    /\ pc' = IF WaitEnded(GetStateResult(waitJob)[1]) THEN "wait_returned"
             ELSE "wait_sleep"
    /\ UNCHANGED <<job_id, sub_script_path, native, owner, files, idLog,
                   logLevel, cluster, rc, cfg, sweep, waitJob, fleetVars>>

\* wait_to_end: time.sleep(period)
WaitToEndSleep ==
    /\ pc = "wait_sleep"
    /\ pc' = "wait_poll"
    /\ UNCHANGED <<job_id, last_state, sub_script_path, native, owner, files,
                   idLog, logLevel, cluster, rc, cfg, sweep, ev, waitJob, waitTrace, fleetVars>>

\* wait_to_end returned (_action_end_with only logs); the caller goes on
WaitToEndReturn ==
    /\ pc = "wait_returned"
    /\ pc' = "idle"
    /\ waitJob' = 0
    /\ waitTrace' = <<>>
    /\ UNCHANGED <<job_id, last_state, sub_script_path, native, owner, files,
                   idLog, logLevel, cluster, rc, cfg, sweep, ev, fleetVars>>

\* no fleet operation is running
NoFleet ==
    /\ call = "none"
    /\ jobs = <<>>
    /\ array_size = 0
    /\ current_active_job = <<>>
    /\ finished_job = <<>>
    /\ inactive_job = <<>>
    /\ i = 0
    /\ jpos = 0
    /\ entryLive = {}

InitJob ==
    /\ job_id = [j \in Jobs |-> None]
    /\ last_state = [j \in Jobs |-> NoState]
    /\ sub_script_path \in [Jobs -> {NoPath, ConfPath(1)}]
    /\ \A j \in Jobs \ ApiJobs : sub_script_path[j] = NoPath
    /\ native = [id \in Ids |-> "NONE"]
    /\ owner = [id \in Ids |-> 0]
    /\ files = {}
    /\ idLog = <<>>
    /\ logLevel \in {"INFO", "CRITICAL"}
    /\ cluster = [j \in Jobs |-> DefaultCluster]
    /\ rc = NoRun
    /\ cfg = NoConfig
    /\ sweep = <<>>
    /\ ev = NoEv
    /\ pc = "idle"
    /\ waitJob = 0
    /\ waitTrace = <<>>
    /\ NoFleet

NextJob ==
    \/ \E j \in ApiJobs, sd \in {NoDir, Dir}, sp \in {NoPath, ConfPath(1)} :
          JobSubmit(j, sd, sp)
    \/ \E j \in ApiJobs : JobGetState(j)
    \/ \E j \in ApiJobs : WaitToEndCall(j)
    \/ WaitToEndPoll
    \/ WaitToEndSleep
    \/ WaitToEndReturn
    \/ \E id \in Ids : ClusterStep(id)
    \/ \E id \in Ids : ClusterTimeout(id)

SpecJob == InitJob /\ [][NextJob]_vars

\* ------------------------------------------------- properties, SpecJob
\* a step that is a call of submit() (every call writes ev)
SubmitStep == ev' # ev /\ ev'.op = "submit"

\* the canonical state the cluster reports for the job's id right now
Reported(j) == ClusterCanonical(native[job_id[j]])

\* nothing submit() can write outside last_state has changed
SubmitLeftNoTrace ==
    /\ ev'.raised
    /\ \A k \in 1..Len(ev'.prims) : ev'.prims[k] # "submit_job"
    /\ UNCHANGED <<job_id, sub_script_path, native, owner, files, idLog>>

\* C5: wait_to_end does not return while the polls report pend or run, and
\* returns at the first poll that reports complete, error or cancel: every
\* poll before the last one of a returned call reported pend or run, and no
\* poll follows a terminal one.
WaitToEndOnlyOnTerminal ==
    /\ pc \in {"wait_poll", "wait_sleep"} =>
          \A k \in 1..Len(waitTrace) : waitTrace[k] \in {"pend", "run"}
    /\ pc = "wait_returned" =>
          /\ Len(waitTrace) >= 1
          /\ waitTrace[Len(waitTrace)] \in TerminalStates
          /\ \A k \in 1..(Len(waitTrace) - 1) : waitTrace[k] \in {"pend", "run"}
          /\ ev.op = "get_state" /\ ev.job = waitJob
          /\ ev.result[1] = waitTrace[Len(waitTrace)]

WaitToEndReturnedAfterWaiting ==
    /\ pc = "wait_returned"
    /\ Len(waitTrace) >= 2
    /\ waitTrace[1] = "pend"
    /\ waitTrace[Len(waitTrace)] = "error"

\* C6 as stated: submit() on a job whose id is set and whose last known
\* state (last_state, as stored before the call) is pend or run raises and
\* leaves no trace.
SubmitRefusedOnLastKnownState ==
    [][\A j \in Jobs :
          (SubmitStep /\ ev'.job = j /\ job_id[j] # None
             /\ last_state[j] # NoState /\ last_state[j][1] \in {"pend", "run"})
          => SubmitLeftNoTrace]_vars

\* C6 amended: submit() on a job whose id is set and whose state, as the
\* query that submit() itself issues reports it, is pend or run raises: the
\* submit primitive is not invoked, no script is deployed, no line is
\* appended to the recovery log and job_id is unchanged.
SubmitRefusedOnPolledState ==
    [][\A j \in Jobs :
          (SubmitStep /\ ev'.job = j /\ job_id[j] # None
             /\ Reported(j) \in {"pend", "run"})
          => SubmitLeftNoTrace]_vars

SubmitRefusedSeen ==
    /\ ev.op = "submit" /\ ev.raised
    /\ ev.old_id # None
    /\ ev.result # NoState /\ ev.result[1] = "run"
    /\ job_id[ev.job] = ev.old_id

\* C7: submit() on a job whose id is set and whose state is complete, error
\* or cancel goes on: it warns, invokes the submit primitive exactly once and
\* replaces job_id by the newly issued id.
ResubmitTerminalRenewsId ==
    [][\A j \in Jobs :
          (SubmitStep /\ ev'.job = j /\ job_id[j] # None
             /\ Reported(j) \in TerminalStates)
          => /\ ~ev'.raised
             /\ ev'.warned
             /\ Cardinality({k \in 1..Len(ev'.prims) :
                                ev'.prims[k] = "submit_job"}) = 1
             /\ job_id'[j] \in Ids
             /\ job_id'[j] # job_id[j]
             /\ owner[job_id'[j]] = 0 /\ owner'[job_id'[j]] = j]_vars

ResubmitTerminalSeen ==
    /\ ev.op = "submit" /\ ~ev.raised /\ ev.warned
    /\ ev.old_id # None /\ ev.old_id # job_id[ev.job]
    /\ ev.result[1] = "complete"

\* the recovery log gained exactly the line of job j's submission
LogGainedLineOf(j) ==
    /\ Len(idLog') = Len(idLog) + 1
    /\ \A k \in 1..Len(idLog) : idLog'[k] = idLog[k]
    /\ idLog'[Len(idLog')] = <<job_id'[j], sub_script_path'[j]>>
    /\ sub_script_path'[j] \in files'

\* the job got a non-empty id, issued by this call
GotFreshId(j) ==
    /\ job_id'[j] \in Ids
    /\ owner[job_id'[j]] = 0
    /\ owner'[job_id'[j]] = j

\* C8 as stated: after every successful submit() the job holds a new
\* non-empty job_id and the recovery log has gained exactly one line, pairing
\* that id with the deployed script path, the earlier lines unchanged.
SubmitAlwaysLogsOneLine ==
    [][\A j \in Jobs :
          (SubmitStep /\ ev'.job = j /\ ~ev'.raised)
          => GotFreshId(j) /\ LogGainedLineOf(j)]_vars

\* C8 amended: after every successful submit() the job holds a new non-empty
\* job_id; when the logging level is below CRITICAL the recovery log has
\* gained exactly one line, pairing that id with the deployed script path,
\* the earlier lines unchanged; at level CRITICAL the log is unchanged.
SubmitLogsOneLineBelowCritical ==
    [][\A j \in Jobs :
          (SubmitStep /\ ev'.job = j /\ ~ev'.raised)
          => /\ GotFreshId(j)
             /\ IF logLevel # "CRITICAL" THEN LogGainedLineOf(j)
                ELSE idLog' = idLog]_vars

SubmitLoggedSecondLine ==
    /\ ev.op = "submit" /\ ~ev.raised
    /\ Len(idLog) = 2
    /\ idLog[2] = <<job_id[ev.job], ev.path>>
    /\ idLog[1][1] # idLog[2][1]

\* C10: the canonical component that get_state() returns and stores in
\* last_state is one of pend, run, complete, error, cancel, whatever the
\* native state of the scheduler is.
CanonicalStateClosed ==
    /\ \A j \in Jobs :
          last_state[j] # NoState => last_state[j][1] \in CanonicalStates
    /\ (ev.op = "get_state" /\ ~ev.raised) => ev.result[1] \in CanonicalStates

CanonicalOfOddNativeSeen ==
    /\ ev.op = "get_state" /\ ~ev.raised
    /\ ev.result = <<"error", "TIMEOUT">>
    /\ last_state[ev.job] = ev.result

\* ------------------------------------------------- fleet operations
Range(q) == {q[k] : k \in 1..Len(q)}
RemoveAtKeepsAll(q, k) == q
RemoveAt(q, k) == [n \in 1..(Len(q) - 1) |-> IF n < k THEN q[n] ELSE q[n + 1]]
IsDistinct(q) == \A m, n \in 1..Len(q) : q[m] = q[n] => m = n

\* The job lists given to a fleet operation: all lists of at most MaxLen
\* jobs, up to the names of the jobs (the first occurrences are 1, 2, ...).
FleetInputs ==
    {q \in UNION {[1..n -> Jobs] : n \in 0..MaxLen} :
        \A k \in 1..Len(q) : \A x \in 1..(q[k] - 1) : \E m \in 1..(k - 1) : q[m] = x}

\* the poll of a sweep takes a job for ended
FleetEndedOnlyComplete(c) == c = "complete"
FleetEndedWhatever(c) == c \in CanonicalStates
FleetEnded(c) == c \notin {"pend", "run"}

\* the top-up loop goes on (src is the list it draws from)
CanTopUpOffByOne(src) == Len(current_active_job) <= array_size /\ i < Len(src)
CanTopUpNoCap(src) == i < Len(src)
CanTopUp(src) == Len(current_active_job) < array_size /\ i < Len(src)

\* wait_to_array_end_plus: the job is taken for already running
PlusSeedsOnlyRunning(j) == job_id[j] # None /\ GetStateResult(j)[1] \in {"run"}
PlusSeedsActive(j) == job_id[j] # None /\ GetStateResult(j)[1] \in {"pend", "run"}

\* "default value": array_size 0 stands for the length of the job list (of
\* the list of tracks in wait_to_2d_array_end)
DefaultArraySizeKept(n, q) == n
DefaultArraySize(n, q) == IF n = 0 THEN Len(q) ELSE n

\* the sanity check of a fleet operation: a job whose cluster's NAME differs
\* from the NAME of the first job's cluster raises TypeError
SameClusterCheckSelf(q) ==
    \E k \in 1..Len(q) : ClusterNAME(cluster[q[k]]) # ClusterNAME(cluster[q[k]])
SameClusterCheckRaises(q) ==
    \E k \in 1..Len(q) : ClusterNAME(cluster[q[k]]) # ClusterNAME(cluster[q[1]])

\* wait_to_array_end: the sanity check, the default of array_size and the
\* set-up
ArrayEnter ==
    /\ pc = "fleet_entry" /\ call = "array"
    /\ IF SameClusterCheckRaises(jobs)
       THEN /\ pc' = "fleet_raised"
            /\ UNCHANGED <<array_size, current_active_job, finished_job, i>>
       ELSE /\ array_size' = DefaultArraySize(array_size, jobs)
            /\ current_active_job' = <<>>
            /\ finished_job' = <<>>
            /\ i' = 0
            /\ pc' = "fleet_while"
    /\ UNCHANGED <<jobVars, worldVars, logLevel, cluster, rc, cfg, sweep, ev, waitVars, call, jobs,
                   inactive_job, jpos, entryLive>>

\* wait_to_array_end_plus: the sanity check, the default of array_size and
\* the set-up
PlusEnter ==
    /\ pc = "fleet_entry" /\ call = "plus"
    /\ IF SameClusterCheckRaises(jobs)
       THEN /\ pc' = "fleet_raised"
            /\ UNCHANGED <<array_size, current_active_job, finished_job,
                           inactive_job, jpos>>
       ELSE /\ array_size' = DefaultArraySize(array_size, jobs)
            /\ current_active_job' = <<>>
            /\ finished_job' = <<>>
            /\ inactive_job' = <<>>
            /\ jpos' = 0
            /\ pc' = "plus_seed"
    /\ UNCHANGED <<jobVars, worldVars, logLevel, cluster, rc, cfg, sweep, ev, waitVars, call, jobs, i,
                   entryLive>>

\* wait_to_array_end_plus: one round of "consider already running jobs"
PlusSeed ==
    /\ pc = "plus_seed" /\ jpos < Len(jobs)
    /\ LET job == jobs[jpos + 1]
       IN  /\ IF job_id[job] # None
              THEN GetStateEffect(job)
              ELSE UNCHANGED <<last_state, ev>>
           /\ IF PlusSeedsActive(job)
              THEN /\ current_active_job' = Append(current_active_job, job)
                   /\ UNCHANGED inactive_job
              ELSE /\ inactive_job' = Append(inactive_job, job)
                   /\ UNCHANGED current_active_job
           /\ entryLive' = IF job_id[job] # None /\ native[job_id[job]] \in Live
                           THEN entryLive \cup {job} ELSE entryLive
    /\ jpos' = jpos + 1
    /\ UNCHANGED <<job_id, sub_script_path, worldVars, logLevel, cluster, rc, cfg, sweep, pc, waitVars,
                   call, jobs, array_size, finished_job, i>>

PlusSeedDone ==
    /\ pc = "plus_seed" /\ jpos = Len(jobs)
    /\ i' = 0
    /\ pc' = "fleet_while"
    /\ UNCHANGED <<jobVars, worldVars, logLevel, cluster, rc, cfg, sweep, ev, waitVars, call, jobs,
                   array_size, current_active_job, finished_job, inactive_job,
                   jpos, entryLive>>

\* the test of the sweep loop
FleetWhile ==
    /\ pc = "fleet_while" /\ call \in {"array", "plus"}
    /\ pc' = IF Len(finished_job) < Len(jobs) THEN "fleet_topup" ELSE "fleet_done"
    /\ UNCHANGED <<jobVars, worldVars, logLevel, cluster, rc, cfg, sweep, ev, waitVars, fleetVars>>

\* the job the next round of the top-up loop submits
NextToSubmitFromEnd(src) == src[Len(src) - i]
NextToSubmit(src) == src[i + 1]

\* one round of the top-up loop: submit the next job of src and activate it
\* where the call is after a submit() of the top-up loop raised: nothing
\* catches the exception, it leaves the operation
OnSubmitRaiseGoOn == "fleet_topup"
OnSubmitRaise == "fleet_raised"

TopUpFrom(src) ==
    /\ pc = "fleet_topup"
    /\ CanTopUp(src)
    /\ SubmitEffect(NextToSubmit(src), NoDir, NoPath)
    /\ IF ev'.raised
       THEN /\ pc' = OnSubmitRaise
            /\ UNCHANGED <<current_active_job, i>>
       ELSE /\ current_active_job' = Append(current_active_job, NextToSubmit(src))
            /\ i' = i + 1
            /\ UNCHANGED pc
    /\ UNCHANGED <<logLevel, cluster, rc, cfg, sweep, waitVars, call, jobs, array_size, finished_job,
                   inactive_job, jpos, entryLive>>

ArrayTopUp == call = "array" /\ TopUpFrom(jobs)

PlusTopUp == call = "plus" /\ TopUpFrom(inactive_job)

\* the top-up loop ends; the polling loop starts at the last active job
TopUpDone ==
    /\ pc = "fleet_topup" /\ call \in {"array", "plus"}
    /\ ~CanTopUp(IF call = "array" THEN jobs ELSE inactive_job)
    /\ jpos' = Len(current_active_job)
    /\ pc' = "fleet_poll"
    /\ sweep' = <<>>
    /\ UNCHANGED <<jobVars, worldVars, logLevel, cluster, rc, cfg, ev, waitVars, call, jobs,
                   array_size, current_active_job, finished_job, inactive_job,
                   i, entryLive>>

\* the polling loop runs over range(len(current_active_job)-1, -1, -1): the
\* position it takes after position k
PollNextSame(k) == k
PollNext(k) == k - 1

\* one round of the polling loop (it runs from the last active job down)
FleetPoll ==
    /\ pc = "fleet_poll" /\ call \in {"array", "plus"} /\ jpos >= 1
    /\ LET job == current_active_job[jpos]
       IN  /\ GetStateEffect(job)
           /\ IF ev'.raised
              THEN /\ pc' = "fleet_raised"
                   /\ UNCHANGED <<current_active_job, finished_job>>
              ELSE /\ UNCHANGED pc
                   /\ IF FleetEnded(ev'.result[1])
                      THEN /\ finished_job' = Append(finished_job, job)
                           /\ current_active_job' = RemoveAt(current_active_job, jpos)
                      ELSE UNCHANGED <<current_active_job, finished_job>>
    /\ jpos' = PollNext(jpos)
    /\ sweep' = Append(sweep, current_active_job[jpos])
    /\ UNCHANGED <<job_id, sub_script_path, worldVars, logLevel, cluster, rc, cfg, waitVars, call,
                   jobs, array_size, inactive_job, i, entryLive>>

\* the polling loop is through: time.sleep(period)
FleetSleep ==
    /\ pc = "fleet_poll" /\ call \in {"array", "plus"} /\ jpos = 0
    /\ pc' = "fleet_while"
    /\ UNCHANGED <<jobVars, worldVars, logLevel, cluster, rc, cfg, sweep, ev, waitVars, fleetVars>>

\* "summarize": the finished jobs whose last_state is of canonical state c
FinishedIn(c) == SelectSeq(finished_job, LAMBDA x : last_state[x][1] = c)

\* what wait_to_array_end and wait_to_array_end_plus return
FleetReturnAllFinished == finished_job
FleetReturn == FinishedIn("error") \o FinishedIn("cancel")

\* the jobs of pre have been submitted before the fleet operation is called
Rank(j, pre) == Cardinality({k \in pre : k <= j})
PreSubmitted(pre) ==
    /\ job_id = [j \in Jobs |-> IF j \in pre THEN Rank(j, pre) ELSE None]
    /\ last_state = [j \in Jobs |-> NoState]
    /\ sub_script_path = [j \in Jobs |-> ConfPath(j)]
    /\ native = [id \in Ids |-> IF id <= Cardinality(pre) THEN "PENDING" ELSE "NONE"]
    /\ owner = [id \in Ids |-> IF id <= Cardinality(pre)
                               THEN CHOOSE j \in pre : Rank(j, pre) = id ELSE 0]
    /\ files = {ConfPath(j) : j \in pre}
    /\ idLog = [id \in 1..Cardinality(pre) |->
                  <<id, ConfPath(CHOOSE j \in pre : Rank(j, pre) = id)>>]

InitFleet ==
    /\ call \in {"array", "plus"}
    /\ jobs \in FleetInputs
    /\ array_size \in 0..MaxLen
    /\ \E pre \in SUBSET Range(jobs) : PreSubmitted(pre)
    /\ logLevel = "INFO"
    /\ cluster = [j \in Jobs |-> DefaultCluster]
    /\ rc = NoRun
    /\ cfg = NoConfig
    /\ sweep = <<>>
    /\ ev = NoEv
    /\ pc = "fleet_entry"
    /\ waitJob = 0
    /\ waitTrace = <<>>
    /\ current_active_job = <<>>
    /\ finished_job = <<>>
    /\ inactive_job = <<>>
    /\ i = 0
    /\ jpos = 0
    /\ entryLive = {}

FleetStep ==
    \/ ArrayEnter
    \/ PlusEnter
    \/ PlusSeed
    \/ PlusSeedDone
    \/ FleetWhile
    \/ ArrayTopUp
    \/ PlusTopUp
    \/ TopUpDone
    \/ FleetPoll
    \/ FleetSleep

NextFleet ==
    \/ FleetStep
    \/ \E id \in Ids : ClusterStep(id)

SpecFleet == InitFleet /\ [][NextFleet]_vars

\* the same, where the orchestrating process keeps running and every job
\* that is pending or running moves on in the scheduler's queue
SpecFleetFair ==
    /\ InitFleet
    /\ [][NextFleet]_vars
    /\ WF_vars(FleetStep)
    /\ \A id \in Ids : WF_vars(ClusterStep(id))

\* ------------------------------------------------- properties, SpecFleet
\* C1: during wait_to_array_end with array_size = k > 0 the cap stays k and
\* the active set (current_active_job: the jobs the call has submitted and
\* not yet seen ended) never holds more than k jobs, at any point of a sweep.
ArrayActiveWithinCap ==
    /\ []((call = "array" /\ pc # "fleet_entry") =>
             Len(current_active_job) <= array_size)
    /\ [][(call = "array" /\ array_size > 0) => array_size' = array_size]_vars

ArrayCapBinds ==
    /\ call = "array" /\ pc = "fleet_poll"
    /\ Len(jobs) = 2 /\ array_size = 1
    /\ i = 2
    /\ Len(current_active_job) = 1
    /\ Len(finished_job) = 1

\* every input job is in the finished list exactly once
AllFinishedOnce ==
    /\ Len(finished_job) = Len(jobs)
    /\ \A j \in Range(jobs) :
          Cardinality({k \in 1..Len(finished_job) : finished_job[k] = j}) = 1

\* C2: when every submitted job eventually reports a terminal state and no
\* submit() raises, wait_to_array_end and wait_to_array_end_plus, given
\* distinct jobs and any array_size >= 0, terminate, and then every input
\* job is in the finished list exactly once.
FleetTerminates ==
    IsDistinct(jobs) =>
        <>(pc = "fleet_raised" \/ (pc = "fleet_done" /\ AllFinishedOnce))

FleetDoneAfterResume ==
    /\ pc = "fleet_done" /\ call = "plus"
    /\ Len(jobs) = 2 /\ IsDistinct(jobs)
    /\ Cardinality(entryLive) = 1
    /\ i = 1
    /\ AllFinishedOnce

\* C4: wait_to_array_end_plus does not call submit() on a job that at entry
\* has a job_id and is reported pend or run: the job is in the active set
\* from its seeding until it is observed terminal, submit() is not called on
\* it before that, and is never called on it when the jobs are distinct.
PlusNeverSubmitsRunning ==
    /\ [](call = "plus" =>
             \A j \in entryLive :
                last_state[j][1] \in {"pend", "run"} =>
                   j \in Range(current_active_job))
    /\ [][(call = "plus" /\ SubmitStep /\ ev'.job \in entryLive) =>
             /\ last_state[ev'.job][1] \in TerminalStates
             /\ ~IsDistinct(jobs)]_vars

PlusResumedJobEnded ==
    /\ call = "plus" /\ pc = "fleet_done"
    /\ Len(jobs) = 2 /\ IsDistinct(jobs)
    /\ entryLive = Range(jobs)
    /\ \A id \in Ids : owner[id] # 0 => id <= 2
    /\ Range(finished_job) = Range(jobs)


\* C15: wait_to_array_end and wait_to_array_end_plus return exactly the
\* finished jobs whose last observed canonical state is error or cancel (the
\* state their id ended in on the cluster); a job that ended complete is not
\* in the result; the call raises only out of submit(), never because a
\* polled job ended in error or cancel.
FleetReturnsNotCompleted ==
    /\ pc = "fleet_done" =>
          /\ Range(FleetReturn) =
                {j \in Range(jobs) : Reported(j) \in {"error", "cancel"}}
          /\ \A j \in Range(jobs) :
                Len(SelectSeq(FleetReturn, LAMBDA x : x = j)) =
                   IF Reported(j) \in {"error", "cancel"}
                   THEN Len(SelectSeq(jobs, LAMBDA x : x = j)) ELSE 0
          /\ \A k \in 1..Len(FleetReturn) :
                last_state[FleetReturn[k]][1] # "complete"
    /\ pc = "fleet_raised" => (ev.op = "submit" /\ ev.raised)

\* a call on two jobs ended with one job complete and the other one returned
FleetReturnedOneOfTwo ==
    /\ pc = "fleet_done" /\ Len(jobs) > 1 /\ IsDistinct(jobs)
    /\ Len(FleetReturn) = 1
    /\ \E j \in Range(jobs) : last_state[j][1] = "complete"

\* ------------------------------------------------- wait_to_2d_array_end
\* In this operation jobs, current_active_job and finished_job are lists of
\* lists, one per track.
MaxTracks == NJobs

RECURSIVE Flat(_)
Flat(q) == IF q = <<>> THEN <<>> ELSE Head(q) \o Flat(Tail(q))

\* general.num_ele_2d: the number of elements of a 2-d list
NumEle2d(q) == Len(Flat(q))

\* The track lists given: at most MaxTracks tracks, some of them possibly
\* empty, holding distinct jobs (named 1, 2, ... in their order); the first
\* job may have been submitted before the call.
D2Inputs ==
    {q \in UNION {[1..n -> UNION {[1..m -> Jobs] : m \in 0..NJobs}] :
                     n \in 0..MaxTracks} :
        Flat(q) = [k \in 1..NumEle2d(q) |-> k]}

\* the sanity check reads jobs[0][0] for every job: IndexError when the
\* first track is empty and some track is not
D2CheckRaisesOnEmptyFirst == Len(jobs) > 0 /\ jobs[1] = <<>>
D2CheckRaises == NumEle2d(jobs) > 0 /\ jobs[1] = <<>>

\* tracks not yet fully finished
D2UnfinishedAllTracks == Len(jobs)
D2Unfinished == Cardinality({t \in 1..Len(jobs) : Len(jobs[t]) > Len(finished_job[t])})

Min(a, b) == IF a < b THEN a ELSE b

\* the top-up loop goes on
D2CanTopUpNoCap == NumEle2d(current_active_job) < D2Unfinished
D2CanTopUp == NumEle2d(current_active_job) < Min(array_size, D2Unfinished)

\* the track is idle and not fully finished
D2IdleAnyUnfinished(t) == Len(finished_job[t]) < Len(jobs[t])
D2Idle(t) == Len(current_active_job[t]) = 0 /\ Len(finished_job[t]) < Len(jobs[t])

\* "find the 1st idle 1d job list": the for loop over the tracks breaks at
\* the first idle one
D2TakesAnyIdle(t) == D2Idle(t)
D2TakesTrack(t) == D2Idle(t) /\ \A u \in 1..(t - 1) : ~D2Idle(u)

\* the poll of a sweep takes a job for ended
D2EndedWhenRunning(c) == c \notin {"pend"}
D2EndedOnlyComplete(c) == c = "complete"
D2Ended(c) == c \notin {"pend", "run"}

\* the sanity check, the default of array_size and the set-up
D2Enter ==
    /\ pc = "fleet_entry" /\ call = "2d"
    /\ IF D2CheckRaises \/ SameClusterCheckRaises(Flat(jobs))
       THEN /\ pc' = "fleet_raised"
            /\ UNCHANGED <<array_size, current_active_job, finished_job>>
       ELSE /\ array_size' = DefaultArraySize(array_size, jobs)
            /\ current_active_job' = [t \in 1..Len(jobs) |-> <<>>]
            /\ finished_job' = [t \in 1..Len(jobs) |-> <<>>]
            /\ pc' = "fleet_while"
    /\ UNCHANGED <<jobVars, worldVars, logLevel, cluster, rc, cfg, sweep, ev, waitVars, call, jobs,
                   inactive_job, i, jpos, entryLive>>

\* the test of the sweep loop
D2While ==
    /\ pc = "fleet_while" /\ call = "2d"
    /\ pc' = IF NumEle2d(finished_job) < NumEle2d(jobs) THEN "fleet_topup"
             ELSE "fleet_done"
    /\ UNCHANGED <<jobVars, worldVars, logLevel, cluster, rc, cfg, sweep, ev, waitVars, fleetVars>>

\* one round of the top-up loop: the first idle track submits its next job
D2TopUp ==
    /\ pc = "fleet_topup" /\ call = "2d"
    /\ D2CanTopUp
    /\ \E t \in 1..Len(jobs) :
          /\ D2TakesTrack(t)
          /\ LET target_job == jobs[t][Len(finished_job[t]) + 1]
             IN  /\ SubmitEffect(target_job, NoDir, NoPath)
                 /\ IF ev'.raised
                    THEN /\ pc' = "fleet_raised"
                         /\ UNCHANGED current_active_job
                    ELSE /\ current_active_job' =
                              [current_active_job EXCEPT ![t] = Append(@, target_job)]
                         /\ UNCHANGED pc
    /\ UNCHANGED <<logLevel, cluster, rc, cfg, sweep, waitVars, call, jobs, array_size, finished_job,
                   inactive_job, i, jpos, entryLive>>

\* the top-up loop ends; the polling loop starts at the first track
D2TopUpDone ==
    /\ pc = "fleet_topup" /\ call = "2d"
    /\ ~D2CanTopUp
    /\ jpos' = 1
    /\ pc' = "fleet_poll"
    /\ sweep' = <<>>
    /\ UNCHANGED <<jobVars, worldVars, logLevel, cluster, rc, cfg, ev, waitVars, call, jobs,
                   array_size, current_active_job, finished_job, inactive_job,
                   i, entryLive>>

\* one round of the polling loop: the track at jpos
D2Poll ==
    /\ pc = "fleet_poll" /\ call = "2d"
    /\ jpos <= Len(jobs)
    /\ IF current_active_job[jpos] = <<>>
       THEN UNCHANGED <<last_state, ev, pc, current_active_job, finished_job>>
       ELSE IF Len(current_active_job[jpos]) > 1
       THEN /\ pc' = "fleet_raised"
            /\ UNCHANGED <<last_state, ev, current_active_job, finished_job>>
       ELSE LET job == current_active_job[jpos][1]
            IN  /\ GetStateEffect(job)
                /\ UNCHANGED pc
                /\ IF ~ev'.raised /\ D2Ended(ev'.result[1])
                   THEN /\ finished_job' = [finished_job EXCEPT ![jpos] = Append(@, job)]
                        /\ current_active_job' = [current_active_job EXCEPT ![jpos] = <<>>]
                   ELSE UNCHANGED <<current_active_job, finished_job>>
    /\ jpos' = jpos + 1
    /\ sweep' = IF current_active_job[jpos] = <<>> \/ Len(current_active_job[jpos]) > 1
                 THEN sweep ELSE Append(sweep, current_active_job[jpos][1])
    /\ UNCHANGED <<job_id, sub_script_path, worldVars, logLevel, cluster, rc, cfg, waitVars, call,
                   jobs, array_size, inactive_job, i, entryLive>>

\* the polling loop is through: time.sleep(period)
D2Sleep ==
    /\ pc = "fleet_poll" /\ call = "2d"
    /\ jpos = Len(jobs) + 1
    /\ pc' = "fleet_while"
    /\ UNCHANGED <<jobVars, worldVars, logLevel, cluster, rc, cfg, sweep, ev, waitVars, fleetVars>>

Init2D ==
    /\ call = "2d"
    /\ jobs \in D2Inputs
    /\ array_size \in 0..MaxTracks
    /\ \E pre \in SUBSET (Range(Flat(jobs)) \cap {1}) : PreSubmitted(pre)
    /\ logLevel = "INFO"
    /\ cluster = [j \in Jobs |-> DefaultCluster]
    /\ rc = NoRun
    /\ cfg = NoConfig
    /\ sweep = <<>>
    /\ ev = NoEv
    /\ pc = "fleet_entry"
    /\ waitJob = 0
    /\ waitTrace = <<>>
    /\ current_active_job = <<>>
    /\ finished_job = <<>>
    /\ inactive_job = <<>>
    /\ i = 0
    /\ jpos = 0
    /\ entryLive = {}

D2Step ==
    \/ D2Enter
    \/ D2While
    \/ D2TopUp
    \/ D2TopUpDone
    \/ D2Poll
    \/ D2Sleep

Next2D ==
    \/ D2Step
    \/ \E id \in Ids : ClusterStep(id)

Spec2D == Init2D /\ [][Next2D]_vars

\* ------------------------------------------------- properties, Spec2D
\* C3: in wait_to_2d_array_end submit() is called on job k+1 of a track only
\* after job k of the track (and every job before it) has been polled in a
\* terminal state and moved to the finished list of the track.
TrackRunsInOrder ==
    [][\A t \in 1..Len(jobs) : \A k \in 2..Len(jobs[t]) :
          (call = "2d" /\ SubmitStep /\ ev'.job = jobs[t][k]) =>
             /\ finished_job[t] = SubSeq(jobs[t], 1, k - 1)
             /\ \A m \in 1..(k - 1) :
                   /\ last_state[jobs[t][m]] # NoState
                   /\ last_state[jobs[t][m]][1] \in TerminalStates
                   /\ native[job_id[jobs[t][m]]] \notin Live]_vars

SecondOfTrackSubmitted ==
    /\ call = "2d" /\ pc = "fleet_topup"
    /\ jobs = <<<<1, 2>>>>
    /\ ev.op = "submit" /\ ev.job = 2 /\ ~ev.raised
    /\ finished_job = <<<<1>>>>
    /\ current_active_job = <<<<2>>>>

\* ------------------------------------------------- stop and restart
\* A process runs wait_to_array_end on newly built jobs and stops; a second
\* process builds the same jobs again, calls retrive_job_id() on each and
\* runs wait_to_array_end_plus on them.

\* the process stops between two steps of the fleet operation
Crash ==
    /\ call = "array"
    /\ pc \in {"fleet_entry", "fleet_while", "fleet_topup", "fleet_poll"}
    /\ pc' = "stopped"
    /\ UNCHANGED <<jobVars, worldVars, logLevel, cluster, rc, cfg, sweep, ev, waitVars, fleetVars>>

\* the process stops inside submit(): cluster.submit_job has returned and
\* _record_job_id_to_file has not run
CrashInSubmit ==
    /\ call = "array" /\ pc = "fleet_topup"
    /\ CanTopUp(jobs)
    /\ SubmitUpTo(jobs[i + 1], NoDir, NoPath, FALSE)
    /\ ~ev'.raised
    /\ pc' = "stopped"
    /\ UNCHANGED <<logLevel, cluster, rc, cfg, sweep, waitVars, fleetVars>>

\* the second process builds the jobs as the first one did (config_job)
Restart ==
    /\ pc = "stopped"
    /\ job_id' = [j \in Jobs |-> None]
    /\ last_state' = [j \in Jobs |-> NoState]
    /\ sub_script_path' = [j \in Jobs |-> ConfPath(j)]
    /\ call' = "plus"
    /\ pc' = "restart"
    /\ ev' = NoEv
    /\ array_size' \in 0..MaxLen
    /\ current_active_job' = <<>>
    /\ finished_job' = <<>>
    /\ inactive_job' = <<>>
    /\ i' = 0
    /\ jpos' = 0
    /\ UNCHANGED <<worldVars, logLevel, cluster, rc, cfg, sweep, waitVars, jobs, entryLive>>

\* the second process calls retrive_job_id() on the next job of the list
Retrive ==
    /\ pc = "restart" /\ jpos < Len(jobs)
    /\ RetriveEffect(jobs[jpos + 1])
    /\ jpos' = jpos + 1
    /\ pc' = IF ev'.raised THEN "fleet_raised" ELSE pc
    /\ UNCHANGED <<last_state, sub_script_path, worldVars, logLevel, cluster, rc, cfg, sweep, waitVars,
                   call, jobs, array_size, current_active_job, finished_job,
                   inactive_job, i, entryLive>>

\* the second process calls wait_to_array_end_plus
RetriveDone ==
    /\ pc = "restart" /\ jpos = Len(jobs)
    /\ pc' = "fleet_entry"
    /\ UNCHANGED <<jobVars, worldVars, logLevel, cluster, rc, cfg, sweep, ev, waitVars, fleetVars>>

InitCrash ==
    /\ call = "array"
    /\ jobs \in {q \in FleetInputs : IsDistinct(q)}
    /\ array_size \in 0..MaxLen
    /\ PreSubmitted({})
    /\ logLevel = "INFO"
    /\ cluster = [j \in Jobs |-> DefaultCluster]
    /\ rc = NoRun
    /\ cfg = NoConfig
    /\ sweep = <<>>
    /\ ev = NoEv
    /\ pc = "fleet_entry"
    /\ waitJob = 0
    /\ waitTrace = <<>>
    /\ current_active_job = <<>>
    /\ finished_job = <<>>
    /\ inactive_job = <<>>
    /\ i = 0
    /\ jpos = 0
    /\ entryLive = {}

NextCrash ==
    \/ FleetStep
    \/ Crash
    \/ CrashInSubmit
    \/ Restart
    \/ Retrive
    \/ RetriveDone
    \/ \E id \in Ids : ClusterStep(id)

SpecCrash == InitCrash /\ [][NextCrash]_vars

\* ------------------------------------------------- properties, SpecCrash
\* the ids of the job's script that are pending or running on the cluster
LiveIdsOf(j) == {id \in Ids : owner[id] = j /\ native[id] \in Live}

\* C9: after a process stopped at any point of a fleet operation and a second
\* one rebuilt the jobs, called retrive_job_id() on each and runs
\* wait_to_array_end_plus, no job that is still pend or run on the cluster is
\* submitted a second time: no job has two ids that are pending or running.
NoDoubleSubmitAfterRestart ==
    call = "plus" => \A j \in Jobs : Cardinality(LiveIdsOf(j)) <= 1

\* ------------------------------------------------- control and monitor calls
\* the direct caller also kills, holds, releases and asks is_complete()

\* kill / hold / release: the Cluster Interface primitive runs after
\* require_job_id() passed
ControlPrimsAlways(j, prim) == <<prim>>
ControlPrims(j, prim) == IF RequireJobIdRaises(j) THEN <<>> ELSE <<prim>>

\* cluster.kill_job(id): a job still in the queue is cancelled
ClusterKillJob(id) ==
    IF native[id] \in Live THEN [native EXCEPT ![id] = "CANCELLED"] ELSE native

\* kill(): require_job_id(), then cluster.kill_job(job_id)
KillCall(j) ==
    /\ ev' = [NoEv EXCEPT !.op = "kill", !.job = j, !.old_id = job_id[j],
                          !.raised = RequireJobIdRaises(j),
                          !.prims = ControlPrims(j, "kill_job")]
    /\ native' = IF ev'.prims = <<>> \/ job_id[j] = None THEN native
                 ELSE ClusterKillJob(job_id[j])

\* kill() by the direct caller
JobKill(j) ==
    /\ pc = "idle"
    /\ KillCall(j)
    /\ UNCHANGED <<job_id, last_state, sub_script_path, owner, files, idLog,
                   logLevel, cluster, rc, cfg, sweep, pc, waitJob, waitTrace, fleetVars>>

\* hold() and release(): the scheduler's hold flag is outside the modelled
\* queue state, the call of the primitive is recorded
JobHoldRelease(j, op, prim) ==
    /\ pc = "idle"
    /\ ev' = [NoEv EXCEPT !.op = op, !.job = j, !.old_id = job_id[j],
                          !.raised = RequireJobIdRaises(j),
                          !.prims = ControlPrims(j, prim)]
    /\ UNCHANGED <<job_id, last_state, sub_script_path, native, owner, files,
                   idLog, logLevel, cluster, rc, cfg, sweep, pc, waitJob, waitTrace, fleetVars>>

JobHold(j) == JobHoldRelease(j, "hold", "hold_job")

JobRelease(j) == JobHoldRelease(j, "release", "release_job")

\* is_complete(): get_state()[0] == "complete"
JobIsComplete(j) ==
    /\ pc = "idle"
    /\ GetStateCall(j, "is_complete")
    /\ UNCHANGED <<job_id, sub_script_path, native, owner, files, idLog,
                   logLevel, cluster, rc, cfg, sweep, pc, waitJob, waitTrace, fleetVars>>

NextControl ==
    \/ \E j \in ApiJobs : JobSubmit(j, NoDir, NoPath)
    \/ \E j \in ApiJobs : JobGetState(j)
    \/ \E j \in ApiJobs : JobIsComplete(j)
    \/ \E j \in ApiJobs : JobKill(j)
    \/ \E j \in ApiJobs : JobHold(j)
    \/ \E j \in ApiJobs : JobRelease(j)
    \/ \E j \in ApiJobs : WaitToEndCall(j)
    \/ WaitToEndPoll
    \/ WaitToEndSleep
    \/ WaitToEndReturn
    \/ \E id \in Ids : ClusterStep(id)

SpecControl == InitJob /\ [][NextControl]_vars

\* ------------------------------------------------- properties, SpecControl
\* the calls that start with require_job_id()
NeedIdOps == {"get_state", "is_complete", "wait_to_end", "kill", "hold", "release"}

\* a step that is such a call on a job that has no job_id
NeedIdStepWithoutId ==
    /\ ev' # ev
    /\ ev'.op \in NeedIdOps
    /\ job_id[ev'.job] = None

\* C11: get_state, is_complete, wait_to_end, kill, hold and release on a job
\* with no job_id raise; no Cluster Interface primitive is invoked, nothing
\* changes on the cluster, and the job's job_id and last_state stay absent.
NoIdCallRaisesUntouched ==
    [][NeedIdStepWithoutId =>
          /\ ev'.raised
          /\ ev'.prims = <<>>
          /\ job_id'[ev'.job] = None
          /\ last_state[ev'.job] = NoState
          /\ last_state'[ev'.job] = NoState
          /\ UNCHANGED <<native, owner, pc>>]_vars

\* a release() was refused for a job that was never submitted
NoIdCallRefusedSeen ==
    /\ ev.op = "release" /\ ev.raised
    /\ job_id[ev.job] = None /\ last_state[ev.job] = NoState

\* ------------------------------------------------- fleets over several
\* Cluster Interface instances
\* Any of the three fleet operations is called on jobs that target any of the
\* instances (the first job of the list is named 1 and targets the default
\* instance), with array_size left at 0 or given as the natural size.
FleetJobs == IF call = "2d" THEN Flat(jobs) ELSE jobs

InitSanity ==
    /\ call \in {"array", "plus", "2d"}
    /\ IF call = "2d" THEN jobs \in D2Inputs
       ELSE jobs \in {q \in FleetInputs : IsDistinct(q)}
    /\ array_size \in {0, Len(jobs)}
    /\ \E pre \in SUBSET (Range(FleetJobs) \cap {1}) :
          /\ call # "plus" => pre = {}
          /\ PreSubmitted(pre)
    /\ logLevel = "INFO"
    /\ cluster \in [Jobs -> ClusterInstances]
    /\ rc = NoRun
    /\ cfg = NoConfig
    /\ sweep = <<>>
    /\ \A j \in (Jobs \ Range(FleetJobs)) \cup {1} : cluster[j] = DefaultCluster
    /\ ev = NoEv
    /\ pc = "fleet_entry"
    /\ waitJob = 0
    /\ waitTrace = <<>>
    /\ current_active_job = <<>>
    /\ finished_job = <<>>
    /\ inactive_job = <<>>
    /\ i = 0
    /\ jpos = 0
    /\ entryLive = {}

NextSanity ==
    \/ FleetStep
    \/ D2Step
    \/ \E id \in Ids : ClusterStep(id)

SpecSanity == InitSanity /\ [][NextSanity]_vars

\* ------------------------------------------------- properties, SpecSanity
\* the jobs of the call do not all target one instance
InstancesMixed == \E k \in 1..Len(FleetJobs) : cluster[FleetJobs[k]] # cluster[FleetJobs[1]]

\* the jobs of the call do not all target clusters of one NAME
NamesMixed ==
    \E k \in 1..Len(FleetJobs) :
       ClusterNAME(cluster[FleetJobs[k]]) # ClusterNAME(cluster[FleetJobs[1]])

\* the first step of the fleet operation
FleetEntryStep == pc = "fleet_entry" /\ pc' # pc

\* the call was rejected and no job was touched
RejectedUntouched ==
    /\ pc' = "fleet_raised"
    /\ UNCHANGED <<job_id, last_state, sub_script_path, native, owner, files,
                   idLog, ev>>

\* C12 as stated: each of the three fleet operations, given jobs that do not
\* all target the same Cluster Interface instance, raises before any job is
\* submitted or polled and leaves every job_id and last_state unchanged.
MixedInstancesRejected ==
    /\ [][(FleetEntryStep /\ InstancesMixed) => RejectedUntouched]_vars
    /\ []((pc # "fleet_entry" /\ InstancesMixed) => (pc = "fleet_raised" /\ ev = NoEv))

\* C12: each of the three fleet operations, given jobs whose Cluster
\* Interfaces do not all carry the same NAME, raises before any job is
\* submitted or polled and leaves every job_id and last_state unchanged.
MixedNamesRejected ==
    /\ [][(FleetEntryStep /\ NamesMixed) => RejectedUntouched]_vars
    /\ []((pc # "fleet_entry" /\ NamesMixed) => (pc = "fleet_raised" /\ ev = NoEv))

\* a call over two backends was rejected with its jobs already submitted
MixedNamesRejectedSeen ==
    /\ call = "plus" /\ pc = "fleet_raised" /\ NamesMixed
    /\ ev = NoEv
    /\ \E j \in Range(FleetJobs) : job_id[j] # None /\ last_state[j] = NoState

\* ------------------------------------------------- EnvironmentManager
\* run_command(exe, args, try_time, ...) of an EnvironmentManager whose
\* check has flagged some executables as missing. rc.attempts lists the shell
\* invocations made so far (TRUE: the command succeeded), rc.this_error is
\* the attempt whose error is held (0: none), rc.sleeps counts time.sleep.
Exes == {"tleap", "sander"}

restVars == <<job_id, last_state, sub_script_path, native, owner, files, idLog,
              logLevel, cluster, cfg, sweep, ev, pc, waitJob, waitTrace, call, jobs,
              array_size, current_active_job, finished_job, inactive_job, i,
              jpos, entryLive>>

\* getattr(logging, log_level.upper(), None) is a level
LogLevelKnown(l) == l \in {"debug", "info", "warning", "error", "critical"}

\* "handle missing exe": the executable is flagged or is not found now
MissingExeOnlyUnfound(r) == r.exe \notin r.present
MissingExeRaises(r) == r.exe \in r.missing \/ r.exe \notin r.present

\* for i in range(try_time): another round of the loop starts
MoreTriesOneMore(r) == r.i <= r.try_time
MoreTries(r) == r.i < r.try_time

\* run_command up to the loop: the check for a missing executable, the
\* warning for an unregistered one, the "Running command" log record
RunCheck ==
    /\ rc.pc = "call"
    /\ rc' = IF MissingExeRaises(rc)
             THEN [rc EXCEPT !.pc = "done", !.outcome = "raised_missing"]
             ELSE IF ~LogLevelKnown(rc.log_level)
             THEN [rc EXCEPT !.pc = "done", !.outcome = "raised_type",
                             !.warned = rc.exe \notin rc.mapper]
             ELSE [rc EXCEPT !.pc = "loop", !.i = 0,
                             !.warned = rc.exe \notin rc.mapper]
    /\ UNCHANGED restVars

\* one round of the loop: the shell runs the command; on success the result
\* of this run is returned, on SubprocessError the error is kept
RunAttempt ==
    /\ rc.pc = "loop" /\ MoreTries(rc)
    /\ \E ok \in BOOLEAN :
          rc' = IF ok
                THEN [rc EXCEPT !.attempts = Append(@, TRUE), !.pc = "done",
                                !.outcome = "returned", !.of = Len(rc.attempts) + 1]
                ELSE [rc EXCEPT !.attempts = Append(@, FALSE), !.pc = "sleep",
                                !.this_error = Len(rc.attempts) + 1]
    /\ UNCHANGED restVars

\* "wait before next try": time.sleep(wait_time), then the next round
RunSleep ==
    /\ rc.pc = "sleep"
    /\ rc' = [rc EXCEPT !.sleeps = @ + 1, !.i = @ + 1, !.pc = "loop"]
    /\ UNCHANGED restVars

\* "exceed the try time": raise this_error (unbound when no round ran)
RunExhausted ==
    /\ rc.pc = "loop" /\ ~MoreTries(rc)
    /\ rc' = IF rc.this_error = 0
             THEN [rc EXCEPT !.pc = "done", !.outcome = "raised_unbound"]
             ELSE [rc EXCEPT !.pc = "done", !.outcome = "raised_error",
                             !.of = rc.this_error]
    /\ UNCHANGED restVars

InitRun ==
    /\ \E e \in Exes, n \in 0..MaxTry, m \in SUBSET Exes, f \in SUBSET Exes,
          l \in {"info", "verbose"} :
          \E reg \in SUBSET (f \ m) :
             rc = [NoRun EXCEPT !.pc = "call", !.exe = e, !.try_time = n,
                                !.missing = m, !.present = f, !.mapper = reg,
                                !.log_level = l]
    /\ job_id = [j \in Jobs |-> None]
    /\ last_state = [j \in Jobs |-> NoState]
    /\ sub_script_path = [j \in Jobs |-> NoPath]
    /\ native = [id \in Ids |-> "NONE"]
    /\ owner = [id \in Ids |-> 0]
    /\ files = {}
    /\ idLog = <<>>
    /\ logLevel = "INFO"
    /\ cluster = [j \in Jobs |-> DefaultCluster]
    /\ cfg = NoConfig
    /\ sweep = <<>>
    /\ ev = NoEv
    /\ pc = "idle"
    /\ waitJob = 0
    /\ waitTrace = <<>>
    /\ NoFleet

NextRun ==
    \/ RunCheck
    \/ RunAttempt
    \/ RunSleep
    \/ RunExhausted

SpecRun == InitRun /\ [][NextRun]_vars

\* ------------------------------------------------- properties, SpecRun
\* every attempt made so far but the last one failed
OnlyLastMaySucceed == \A k \in 1..(Len(rc.attempts) - 1) : ~rc.attempts[k]

\* C13: run_command with try_time = n >= 1 runs the command at most n times
\* and stops at the first attempt that succeeds, returning the result of that
\* attempt; when all n attempts fail it raises the error captured at the n-th
\* attempt; an (n+1)-th attempt is never made.
RunCommandTriesAtMostN ==
    rc.try_time >= 1 =>
       /\ Len(rc.attempts) <= rc.try_time
       /\ OnlyLastMaySucceed
       /\ (rc.attempts # <<>> /\ rc.attempts[Len(rc.attempts)]) =>
             (rc.pc = "done" /\ rc.outcome = "returned" /\ rc.of = Len(rc.attempts))
       /\ rc.outcome = "returned" => rc.attempts[rc.of]
       /\ rc.outcome = "raised_error" =>
             /\ Len(rc.attempts) = rc.try_time
             /\ \A k \in 1..Len(rc.attempts) : ~rc.attempts[k]
             /\ rc.of = rc.try_time
       /\ (rc.pc = "done" /\ Len(rc.attempts) = rc.try_time
             /\ ~rc.attempts[Len(rc.attempts)]) => rc.outcome = "raised_error"
       /\ rc.outcome # "raised_unbound"

\* three failed attempts of three ended in the raise of the third error
RunCommandExhaustedSeen ==
    /\ rc.try_time > 2 /\ Len(rc.attempts) = rc.try_time
    /\ rc.outcome = "raised_error" /\ rc.of = rc.try_time

\* C14: run_command for an executable the environment has flagged as missing
\* raises the missing-element error before any shell invocation, whatever
\* try_time is: no attempt is made and nothing is waited for.
FlaggedExeNeverRuns ==
    (rc.pc \notin {"none", "call"} /\ rc.exe \in rc.missing) =>
       /\ rc.pc = "done" /\ rc.outcome = "raised_missing"
       /\ rc.attempts = <<>>
       /\ rc.sleeps = 0

\* a flagged executable that is found by now was refused, with retries asked
FlaggedExeRefusedSeen ==
    /\ rc.exe \in rc.missing /\ rc.exe \in rc.present
    /\ rc.try_time > 1
    /\ rc.outcome = "raised_missing"

\* ------------------------------------------------- properties, Spec2D (cap)
\* tracks that hold an active job
ActiveTracks == {t \in 1..Len(current_active_job) : current_active_job[t] # <<>>}

\* the top-up loop of the sweep has just ended
D2AfterTopUp == call = "2d" /\ pc = "fleet_poll" /\ jpos = 1

\* C16: in wait_to_2d_array_end with array_size = k > 0 (and with the
\* number of tracks for k when array_size = 0 is given) the number of tracks
\* holding an active job never exceeds k, and after each top-up step it
\* equals min(k, number of not fully finished tracks).
D2ActiveTracksWithinCap ==
    (call = "2d" /\ pc \notin {"fleet_entry", "fleet_raised"}) =>
       /\ Cardinality(ActiveTracks) <= array_size
       /\ D2AfterTopUp => Cardinality(ActiveTracks) = Min(array_size, D2Unfinished)

\* a sweep has topped up to a cap of one track while two tracks are unfinished
D2CapBinds ==
    /\ D2AfterTopUp
    /\ array_size = 1 /\ D2Unfinished = 2
    /\ Cardinality(ActiveTracks) = 1

\* C17: in wait_to_2d_array_end no track ever has more than one active job,
\* at any point of any sweep, and the call never raises the defensive
\* "Sequential jobs submitted at the same time" error: it raises only out of
\* its sanity check or out of submit().
D2TrackHoldsAtMostOne ==
    call = "2d" =>
       /\ \A t \in 1..Len(current_active_job) : Len(current_active_job[t]) <= 1
       /\ pc = "fleet_raised" =>
             \/ ev = NoEv /\ D2CheckRaises
             \/ ev.op = "submit" /\ ev.raised

\* the polling loop has gone over a track with one active job while two
\* tracks are active
D2PolledActiveTrackSeen ==
    /\ call = "2d" /\ pc = "fleet_poll" /\ jpos > 1
    /\ ev.op = "get_state" /\ ~ev.raised
    /\ Cardinality(ActiveTracks) = 2

\* ------------------------------------------------- properties, SpecSanity
\* (array_size = 0)
\* the list the top-up loop of the 1-d operations draws from
TopUpSource == IF call = "array" THEN jobs ELSE inactive_job

\* C18: array_size = 0 imposes no cap. An operation entered with
\* array_size = 0 goes on from the state it goes on from when entered with
\* array_size = N (the number of jobs, or of tracks for wait_to_2d_array_end),
\* and in it the top-up of a sweep leaves nothing waiting: every job not yet
\* active is submitted in the first sweep, every non-empty track has its
\* first job submitted in the first sweep.
ZeroArraySizeIsNoCap ==
    /\ [][(FleetEntryStep /\ pc' # "fleet_raised") =>
             array_size' = Len(jobs)]_vars
    /\ [](pc = "fleet_poll" =>
             IF call = "2d"
             THEN jpos = 1 =>
                  /\ \A t \in 1..Len(jobs) : D2IdleAnyUnfinished(t) => t \in ActiveTracks
                  /\ NumEle2d(finished_job) = 0 =>
                        \A t \in 1..Len(jobs) :
                           jobs[t] # <<>> => current_active_job[t] = <<jobs[t][1]>>
             ELSE /\ i = Len(TopUpSource)
                  /\ finished_job = <<>> =>
                        Range(current_active_job) = Range(jobs))

\* the first sweep of a 2-d call over two tracks has submitted the first
\* job of each track
ZeroArraySizeAllTracksSeen ==
    /\ call = "2d" /\ pc = "fleet_poll" /\ jpos = 1
    /\ Len(jobs) = 2 /\ array_size = 2
    /\ NumEle2d(finished_job) = 0
    /\ Cardinality(ActiveTracks) = 2

\* ------------------------------------------------- properties, SpecSanity
\* (empty fleets)
\* the fleet operation is given no job
FleetOfSizeZero == Len(FleetJobs) = 0

\* C19: given a fleet of size 0 (an empty job list, or a list of tracks that
\* hold no job) each of the three fleet operations terminates immediately:
\* it goes from its set-up through the first test of its sweep loop to its
\* end, without a sweep, a sleep or a raise, and calls neither submit() nor
\* get_state().
EmptyFleetEndsAtOnce ==
    /\ [](FleetOfSizeZero =>
             /\ pc \in {"fleet_entry", "plus_seed", "fleet_while", "fleet_done"}
             /\ ev = NoEv
             /\ Issued = {}
             /\ pc # "fleet_done" => ENABLED (FleetStep \/ D2Step))
    /\ [][FleetOfSizeZero =>
             /\ pc = "fleet_entry" => pc' \in {"plus_seed", "fleet_while"}
             /\ pc = "plus_seed" => pc' = "fleet_while"
             /\ pc = "fleet_while" => pc' = "fleet_done"]_vars

\* a 2-d call on two empty tracks has ended
EmptyTracksEndedSeen ==
    /\ call = "2d" /\ Len(jobs) = 2 /\ FleetOfSizeZero
    /\ pc = "fleet_done"

\* ------------------------------------------------- properties, SpecFleet
\* (submission order)
\* lines of the recovery log written before the fleet operation was called
LogLinesBefore == Len(idLog) - i

\* C20: in wait_to_array_end jobs are submitted in list order with no
\* reordering: the submissions made by the call, as the cluster and the
\* recovery log have them one after the other, are those of the first i jobs
\* of the list in list order, so job j is never submitted while a job before
\* it in the list is still unsubmitted.
ArraySubmitsInListOrder ==
    call = "array" =>
       /\ LogLinesBefore >= 0
       /\ \A m \in 1..i :
             /\ idLog[LogLinesBefore + m][2][1] = jobs[m]
             /\ owner[idLog[LogLinesBefore + m][1]] = jobs[m]
             /\ \A n \in 1..(m - 1) :
                   idLog[LogLinesBefore + n][1] < idLog[LogLinesBefore + m][1]
       /\ (pc = "fleet_raised" /\ ev.op = "submit") => ev.job = jobs[i + 1]

\* with a cap of one, the second of two jobs was submitted after the first
ArraySubmittedSecondSeen ==
    /\ call = "array" /\ array_size = 1 /\ IsDistinct(jobs)
    /\ i = 2 /\ LogLinesBefore = 0
    /\ finished_job = <<1>> /\ current_active_job = <<2>>

\* ------------------------------------------------- properties, SpecSanity
\* (order of the polls)
\* the position of job j in the list q
PosIn(q, j) == CHOOSE k \in 1..Len(q) : q[k] = j

\* wait_to_array_end_plus: the rank at which job j entered the active list
\* (the jobs seeded at entry in list order, then the jobs submitted)
PlusActivationRank(j) ==
    IF j \in Range(inactive_job) THEN Len(jobs) + PosIn(inactive_job, j)
    ELSE PosIn(jobs, j)

\* C21 as stated: within one sweep of any of the three fleet operations the
\* active jobs are polled in input order: of two jobs polled in the same
\* sweep the one that comes first in the input is polled first.
SweepPollsInInputOrder ==
    \A m, n \in 1..Len(sweep) :
       m < n => PosIn(FleetJobs, sweep[m]) < PosIn(FleetJobs, sweep[n])

\* C21: within one sweep wait_to_2d_array_end polls the active jobs in track
\* order, while wait_to_array_end and wait_to_array_end_plus poll the active
\* list from its last job down to its first: wait_to_array_end in reverse
\* list order, wait_to_array_end_plus the job activated last first.
SweepPollsTracksUpListsDown ==
    \A m, n \in 1..Len(sweep) :
       m < n =>
          CASE call = "2d" -> PosIn(FleetJobs, sweep[m]) < PosIn(FleetJobs, sweep[n])
            [] call = "array" -> PosIn(jobs, sweep[m]) > PosIn(jobs, sweep[n])
            [] call = "plus" -> PlusActivationRank(sweep[m]) > PlusActivationRank(sweep[n])
            [] OTHER -> FALSE

\* a sweep of wait_to_array_end has polled the second job, then the first
SweepPolledSecondFirstSeen ==
    /\ call = "array" /\ pc = "fleet_poll"
    /\ sweep = <<2, 1>> /\ jobs = <<1, 2>>

\* ------------------------------------------------- kill() during a fleet call
\* While wait_to_array_end or wait_to_array_end_plus runs, a caller that
\* holds the jobs calls kill() on one of the active jobs.
FleetKill(j) ==
    /\ call \in {"array", "plus"}
    /\ pc \in {"fleet_while", "fleet_topup", "fleet_poll"}
    /\ j \in Range(current_active_job)
    /\ KillCall(j)
    /\ UNCHANGED <<job_id, last_state, sub_script_path, owner, files, idLog,
                   logLevel, cluster, rc, cfg, sweep, pc, waitVars, fleetVars>>

InitKill ==
    /\ call \in {"array", "plus"}
    /\ jobs \in {q \in FleetInputs : IsDistinct(q)}
    /\ array_size \in 0..MaxLen
    /\ \E pre \in SUBSET (Range(jobs) \cap {1}) :
          /\ call = "array" => pre = {}
          /\ PreSubmitted(pre)
    /\ logLevel = "INFO"
    /\ cluster = [j \in Jobs |-> DefaultCluster]
    /\ rc = NoRun
    /\ cfg = NoConfig
    /\ sweep = <<>>
    /\ ev = NoEv
    /\ pc = "fleet_entry"
    /\ waitJob = 0
    /\ waitTrace = <<>>
    /\ current_active_job = <<>>
    /\ finished_job = <<>>
    /\ inactive_job = <<>>
    /\ i = 0
    /\ jpos = 0
    /\ entryLive = {}

NextKill ==
    \/ FleetStep
    \/ \E j \in Jobs : FleetKill(j)
    \/ \E id \in Ids : ClusterStep(id)

SpecKill == InitKill /\ [][NextKill]_vars

\* ------------------------------------------------- properties, SpecKill
\* a step that is a call of kill()
KillStep == ev' # ev /\ ev'.op = "kill"

\* C22: kill() on a job of a running fleet call's active list invokes the
\* kill primitive of the Cluster Interface and nothing else: the job's job_id
\* and last_state and the fleet's active and finished lists are unchanged by
\* it; a job leaves the active list only in a poll of it that reports a state
\* other than pend and run, and that poll puts it on the finished list.
KillLeavesBookkeeping ==
    /\ [][KillStep =>
             /\ ev'.prims = <<"kill_job">> /\ ~ev'.raised
             /\ UNCHANGED <<job_id, last_state, sub_script_path, idLog, files,
                            current_active_job, finished_job, inactive_job, i,
                            jpos, pc>>]_vars
    /\ [][\A j \in Range(current_active_job) :
             j \notin Range(current_active_job') =>
                /\ ev'.op = "get_state" /\ ev'.job = j
                /\ ev'.result[1] \in TerminalStates
                /\ last_state'[j] = ev'.result
                /\ finished_job' = Append(finished_job, j)]_vars

\* a killed job is cancelled on the cluster and still on the active list,
\* its last_state being the pend of an earlier poll
KilledJobStillActiveSeen ==
    /\ ev.op = "kill" /\ ~ev.raised
    /\ ev.job \in Range(current_active_job)
    /\ native[job_id[ev.job]] = "CANCELLED"
    /\ last_state[ev.job] # NoState /\ last_state[ev.job][1] = "pend"

\* ------------------------------------------------- retrive_job_id() alone
\* A newly built job, with or without an id and a script path, calls
\* retrive_job_id() over a recovery log that earlier processes wrote.
LogPaths == {ConfPath(1), ConfPath(2), RelPath(ConfPath(1))}
LogLines == {<<id, path>> : id \in 1..MaxId, path \in LogPaths}
Logs == UNION {[1..n -> LogLines] : n \in 0..MaxId}

JobRetrive(j) ==
    /\ pc = "idle"
    /\ RetriveEffect(j)
    /\ UNCHANGED <<last_state, sub_script_path, worldVars, logLevel, cluster,
                   rc, cfg, sweep, pc, waitVars, fleetVars>>

InitRetrive ==
    /\ job_id \in {f \in [Jobs -> 0..MaxId] : \A j \in Jobs \ ApiJobs : f[j] = None}
    /\ last_state = [j \in Jobs |-> NoState]
    /\ sub_script_path \in
          {f \in [Jobs -> LogPaths \cup {NoPath}] :
              \A j \in Jobs \ ApiJobs : f[j] = NoPath}
    /\ native = [id \in Ids |-> "NONE"]
    /\ owner = [id \in Ids |-> 0]
    /\ files = {}
    /\ idLog \in Logs
    /\ logLevel = "INFO"
    /\ cluster = [j \in Jobs |-> DefaultCluster]
    /\ rc = NoRun
    /\ cfg = NoConfig
    /\ sweep = <<>>
    /\ ev = NoEv
    /\ pc = "idle"
    /\ waitJob = 0
    /\ waitTrace = <<>>
    /\ NoFleet

NextRetrive == \E j \in ApiJobs : JobRetrive(j)

SpecRetrive == InitRetrive /\ [][NextRetrive]_vars

\* ------------------------------------------------- properties, SpecRetrive
RetriveStep == ev' # ev /\ ev'.op = "retrive_job_id"

\* the lines of the log whose path, made absolute, is the job's script path
\* made absolute
MatchingLines(j) ==
    {k \in 1..Len(idLog) :
        /\ sub_script_path[j] # NoPath
        /\ Abspath(idLog[k][2]) = Abspath(sub_script_path[j])}

\* C23: retrive_job_id() sets job_id to the id of the last line of the
\* recovery log whose path, resolved to an absolute path, equals the job's
\* script path; when no line matches or there is no log, job_id is unchanged.
\* It writes nothing else.
RetriveTakesLastMatchingLine ==
    [][RetriveStep =>
          LET j == ev'.job
          IN /\ UNCHANGED <<idLog, last_state, sub_script_path, native, files>>
             /\ \A o \in Jobs \ {j} : job_id'[o] = job_id[o]
             /\ IF MatchingLines(j) = {} THEN job_id'[j] = job_id[j]
                ELSE \E k \in MatchingLines(j) :
                        /\ \A m \in MatchingLines(j) : m <= k
                        /\ job_id'[j] = idLog[k][1]]_vars

\* two lines name the job's script, the first absolute and the last
\* relative, with different ids, and the job took the id of the last
RetrivedFromLaterOfTwoSeen ==
    /\ ev.op = "retrive_job_id" /\ ~ev.raised /\ ev.job = 1
    /\ Len(idLog) = 2
    /\ idLog[1][2] = ConfPath(1) /\ idLog[2][2] = RelPath(ConfPath(1))
    /\ sub_script_path[1] = ConfPath(1)
    /\ idLog[1][1] # idLog[2][1]
    /\ job_id[1] = idLog[2][1] /\ ev.old_id = None

\* ------------------------------------------------- properties, SpecFleet (cap of the plus variant)
\* the input positions whose job was pend or run when the call polled it at entry
SeededCount == Len(SelectSeq(jobs, LAMBDA x : x \in entryLive))

Larger(a, b) == IF a < b THEN b ELSE a

D2FinishedIn(t, c) == SelectSeq(finished_job[t], LAMBDA x : last_state[x][1] = c)

\* what wait_to_2d_array_end returns: n_error + n_cancel, each a list with
\* one list per track
D2Return ==
    [t \in 1..Len(finished_job) |-> D2FinishedIn(t, "error")] \o
    [t \in 1..Len(finished_job) |-> D2FinishedIn(t, "cancel")]

\* the jobs of all tracks whose last observed state is error or cancel
D2NotCompleted ==
    SelectSeq(Flat(jobs), LAMBDA x : last_state[x] # NoState /\
                                     last_state[x][1] \in {"error", "cancel"})

\* C25: wait_to_2d_array_end returns a list whose elements are exactly the
\* jobs, over all tracks, whose last observed canonical state is error or
\* cancel; in particular the list has as many elements as there are such jobs.
D2ReturnsNotCompletedJobs ==
    (call = "2d" /\ pc = "fleet_done") => Len(D2Return) = Len(D2NotCompleted)

\* ------------------------------------------------- every method of one job
\* The direct caller uses every method of a job: submit, get_state,
\* is_complete, wait_to_end, kill, hold, release and retrive_job_id.
NextMethods ==
    \/ NextControl
    \/ \E j \in ApiJobs : JobRetrive(j)

SpecMethods == InitJob /\ [][NextMethods]_vars

\* ------------------------------------------------- properties, SpecMethods
\* C26: last_state is absent until the first state query of the job and is
\* written only by a state query (get_state() called directly, through
\* is_complete() or wait_to_end(), or by the sanity check of submit()), which
\* stores what the cluster reports for the id the job holds at the call; a
\* submit() of a job that holds an id always makes that query; kill(),
\* hold(), release(), retrive_job_id() and the submission itself leave
\* last_state as it is.
LastStateOnlyByStateQuery ==
    /\ [](ev = NoEv => \A j \in Jobs : last_state[j] = NoState)
    /\ [][\A j \in Jobs :
             last_state'[j] # last_state[j] =>
                /\ ev'.job = j
                /\ ev'.op \in {"get_state", "is_complete", "submit"}
                /\ job_id[j] # None
                /\ \E k \in 1..Len(ev'.prims) : ev'.prims[k] = "get_job_state"
                /\ last_state'[j] = ClusterGetJobState(job_id[j])]_vars
    /\ [][(SubmitStep /\ ev'.old_id # None) =>
             last_state'[ev'.job] = ClusterGetJobState(ev'.old_id)]_vars
    /\ [][(SubmitStep /\ ev'.old_id = None) => UNCHANGED last_state]_vars
    /\ [][(ev' # ev /\ ev'.op \in {"kill", "hold", "release", "retrive_job_id",
                                  "wait_to_end"}) =>
             UNCHANGED last_state]_vars

\* the job was polled pending and then killed: last_state still says pending
\* while the cluster says cancelled
KillLeftLastStateStaleSeen ==
    /\ ev.op = "kill" /\ ~ev.raised /\ ev.job = 1
    /\ last_state[1] = <<"pend", "PENDING">>
    /\ native[job_id[1]] = "CANCELLED"

\* ------------------------------------------------- properties, Spec2D (who gets the slot)
\* the step puts a job on the active list of track t
D2Activates(t) ==
    /\ call = "2d" /\ SubmitStep
    /\ Len(current_active_job'[t]) > Len(current_active_job[t])

\* C27: in wait_to_2d_array_end a free slot goes to the first idle track in
\* input order: whenever a job of track t is submitted, every track before t
\* holds an active job or is fully finished.
D2FirstIdleTrackWins ==
    [][\A t \in 1..Len(jobs) :
          D2Activates(t) =>
             \A u \in 1..(t - 1) :
                \/ Len(current_active_job[u]) > 0
                \/ Len(finished_job[u]) = Len(jobs[u])]_vars

\* the second track got a slot while the first one was busy
D2SecondTrackTookSlotSeen ==
    /\ call = "2d" /\ pc = "fleet_topup"
    /\ Len(jobs) = 2
    /\ ev.op = "submit" /\ ~ev.raised
    /\ current_active_job[2] = <<ev.job>>
    /\ Len(current_active_job[1]) = 1

\* ------------------------------------------------- wait_to_2d_array_end, fair
\* the orchestrating process keeps running and every job that is pending or
\* running moves on in the scheduler's queue
Spec2DFair ==
    /\ Init2D
    /\ [][Next2D]_vars
    /\ WF_vars(D2Step)
    /\ \A id \in Ids : WF_vars(ClusterStep(id))

\* ------------------------------------------------- properties, Spec2DFair
\* the jobs the call has on an active or a finished list
D2Handled == Range(Flat(current_active_job)) \cup Range(Flat(finished_job))

\* the call submits a job once, and a job gets on an active list only by it
D2SubmitsOnce ==
    /\ [][(call = "2d" /\ SubmitStep /\ ~ev'.raised) =>
             /\ ev'.job \notin D2Handled
             /\ ev'.job \in Range(Flat(current_active_job'))]_vars
    /\ [][(call = "2d" /\ pc # "fleet_entry") =>
             \A j \in Range(Flat(current_active_job')) \ Range(Flat(current_active_job)) :
                SubmitStep /\ ev'.job = j /\ ~ev'.raised]_vars

\* C28 as stated: when every submitted job eventually reports a terminal
\* state, wait_to_2d_array_end returns with every job in its track's
\* finished list in track order.
D2AlwaysReturnsAllFinished ==
    <>(pc = "fleet_done" /\ finished_job = jobs)

\* C28: when every submitted job eventually reports a terminal state,
\* wait_to_2d_array_end either raises, at entry out of the sanity check or
\* later out of a submit() (a job that came with an id still pending or
\* running), or returns with every job of every track submitted exactly once
\* and recorded in its track's finished list in track order; a job ending in
\* error or cancel is finished like one ending complete.
D2ReturnsAllFinishedUnlessRaised ==
    /\ <>(pc = "fleet_raised" \/ (pc = "fleet_done" /\ finished_job = jobs))
    /\ [](pc = "fleet_raised" =>
             \/ D2CheckRaises /\ ev = NoEv
             \/ ev.op = "submit" /\ ev.raised)
    /\ D2SubmitsOnce

\* a track of two jobs is through although its first job ended in error
D2TrackWentOnAfterErrorSeen ==
    /\ call = "2d" /\ pc = "fleet_done"
    /\ Len(jobs) = 1 /\ Len(jobs[1]) = 2
    /\ finished_job = jobs
    /\ last_state[jobs[1][1]][1] = "error"

\* ------------------------------------------------- properties, SpecFleet (what the plus variant submits)
\* the plus call is past its seeding
PlusSeeded == call = "plus" /\ pc \in {"fleet_while", "fleet_topup", "fleet_poll", "fleet_done"}

\* the jobs the call has submitted so far
PlusSubmitted == {inactive_job[k] : k \in 1..i}

\* C29: wait_to_array_end_plus puts an input job that holds a job_id and is
\* polled in a terminal state at entry on the inactive list, like a job
\* without an id: it is not counted finished before the call has submitted
\* it again, and that submit() warns and replaces its job_id. The call
\* submits the inactive list, that is the input jobs not seeded, in input
\* order, each once.
PlusResubmitsEndedJobs ==
    /\ []((PlusSeeded /\ IsDistinct(jobs)) =>
             /\ inactive_job = SelectSeq(jobs, LAMBDA x : x \notin entryLive)
             /\ \A j \in Range(finished_job) : j \in entryLive \/ j \in PlusSubmitted)
    /\ []((call = "plus" /\ pc = "fleet_done") => i = Len(inactive_job))
    /\ [][(call = "plus" /\ SubmitStep) =>
             /\ ev'.job = inactive_job[i + 1]
             /\ i' = IF ev'.raised THEN i ELSE i + 1
             /\ (ev'.old_id # None /\ ~ev'.raised) =>
                   /\ ev'.warned
                   /\ last_state'[ev'.job][1] \in TerminalStates
                   /\ job_id'[ev'.job] # ev'.old_id
                   /\ native'[job_id'[ev'.job]] = "PENDING"]_vars

\* the second of two jobs came with the id of an ended submission and has
\* just been submitted again, after the first
PlusResubmittedEndedSeen ==
    /\ call = "plus" /\ pc = "fleet_topup"
    /\ jobs = <<1, 2>> /\ entryLive = {}
    /\ ev.op = "submit" /\ ev.job = 2 /\ ~ev.raised /\ ev.warned
    /\ ev.old_id # None /\ job_id[2] # ev.old_id
    /\ i = 2

\* ------------------------------------------------- properties, SpecFleet (a submit() that raises)
\* C30: when submit() raises inside wait_to_array_end or
\* wait_to_array_end_plus the exception leaves the operation at once: the
\* failing job is not put on the active list and got no id, and from then on
\* the call makes no method call at all, so that no later job is submitted
\* and the jobs submitted before keep their job_id and are neither killed
\* nor polled again.
SubmitRaiseEndsFleetCall ==
    /\ [][(call \in {"array", "plus"} /\ SubmitStep /\ ev'.raised) =>
             /\ pc' = "fleet_raised"
             /\ UNCHANGED <<current_active_job, finished_job, i, job_id,
                            native, owner, idLog, files>>]_vars
    /\ [][(call \in {"array", "plus"} /\ pc = "fleet_raised") =>
             UNCHANGED <<ev, pc, job_id, last_state, sub_script_path, idLog,
                         current_active_job, finished_job, i>>]_vars

\* the first job is in the queue and on the active list; the submit() of
\* the second, which came with a pending id, raised
SubmitRaisedAfterFirstSeen ==
    /\ call = "array" /\ pc = "fleet_raised"
    /\ jobs = <<1, 2>>
    /\ ev.op = "submit" /\ ev.job = 2 /\ ev.raised
    /\ current_active_job = <<1>> /\ i = 1
    /\ job_id[1] # None /\ native[job_id[1]] \in Live

\* ------------------------------------------------- properties, SpecFleet (the three lists)
\* the jobs wait_to_array_end has not submitted yet
ArrayTail == SubSeq(jobs, i + 1, Len(jobs))

\* C31: throughout wait_to_array_end over distinct jobs, and so at every
\* sweep boundary, the not yet submitted tail of the list, the active list
\* and the finished list are pairwise disjoint and hold each input job
\* exactly once between them; at exit the complete, error and cancel counts
\* of the summary sum to the number of input jobs.
ArrayListsPartitionJobs ==
    /\ (call = "array" /\ IsDistinct(jobs)) =>
          /\ Range(ArrayTail) \cap Range(current_active_job) = {}
          /\ Range(ArrayTail) \cap Range(finished_job) = {}
          /\ Range(current_active_job) \cap Range(finished_job) = {}
          /\ Range(ArrayTail) \cup Range(current_active_job)
                \cup Range(finished_job) = Range(jobs)
          /\ IsDistinct(current_active_job) /\ IsDistinct(finished_job)
          /\ Len(ArrayTail) + Len(current_active_job) + Len(finished_job) = Len(jobs)
    /\ (call = "array" /\ pc = "fleet_done") =>
          Len(FinishedIn("complete")) + Len(FinishedIn("error"))
             + Len(FinishedIn("cancel")) = Len(jobs)

\* under a cap of one the first job is finished, the second active, and the
\* call is at a sweep boundary
ArrayOneFinishedOneActiveSeen ==
    /\ call = "array" /\ pc = "fleet_while"
    /\ jobs = <<1, 2>> /\ array_size = 1
    /\ finished_job = <<1>> /\ current_active_job = <<2>> /\ i = 2

\* ------------------------------------------------- one job and a second submitter
\* Another process builds the same job, finds the script path free again
\* (the file was cleaned up) and submits it: a new id runs the job's script
\* and the recovery log gets a line with the job's script path.
OtherProcessSubmit(j) ==
    /\ pc = "idle"
    /\ sub_script_path[j] # NoPath /\ job_id[j] # None
    /\ NextId <= MaxId
    /\ RecordsJobId
    /\ native' = [native EXCEPT ![NextId] = "PENDING"]
    /\ owner' = [owner EXCEPT ![NextId] = j]
    /\ idLog' = RecordJobIdToFile(idLog, NextId, sub_script_path[j])
    /\ UNCHANGED <<job_id, last_state, sub_script_path, files, logLevel,
                   cluster, rc, cfg, sweep, ev, pc, waitVars, fleetVars>>

NextOwners ==
    \/ NextMethods
    \/ \E j \in ApiJobs : OtherProcessSubmit(j)

SpecOwners == InitJob /\ [][NextOwners]_vars

\* ------------------------------------------------- properties, SpecOwners
\* how far a submission has come in the queue
QueueRank(n) == CASE n = "PENDING" -> 1 [] n = "RUNNING" -> 2 [] OTHER -> 3

\* an id that is in native state n now can have been seen in state s
SeenBefore(s, n) == s = n \/ QueueRank(s) < QueueRank(n)

\* C32 as stated: a last_state that is present was observed for the job_id
\* the job holds; in particular it is a state that id has been in.
LastStateIsOfCurrentId ==
    \A j \in Jobs :
       last_state[j] # NoState =>
          /\ job_id[j] # None
          /\ SeenBefore(last_state[j][2], native[job_id[j]])

\* C32: a last_state that is present is what the job's most recent state
\* query observed, for the job_id the job held at that query. submit() and
\* retrive_job_id() do not clear it: after a successful resubmission
\* last_state holds the state the sanity check observed for the previous id,
\* and after retrive_job_id() adopted a different id it holds what it held
\* before, until the next state query.
LastStateIsOfLastQuery ==
    /\ [](\A j \in Jobs : last_state[j] # NoState => job_id[j] # None)
    /\ [][\A j \in Jobs :
             last_state'[j] # last_state[j] =>
                last_state'[j] = ClusterGetJobState(job_id[j])]_vars
    /\ [][(SubmitStep /\ ~ev'.raised /\ ev'.old_id # None) =>
             /\ job_id'[ev'.job] # ev'.old_id
             /\ last_state'[ev'.job] = ClusterGetJobState(ev'.old_id)
             /\ last_state'[ev'.job][1] \in TerminalStates]_vars
    /\ [][(RetriveStep /\ job_id' # job_id) => UNCHANGED last_state]_vars

\* the job was submitted again: it holds the new, pending id and the
\* last_state of the old one
ResubmittedHoldsOldStateSeen ==
    /\ ev.op = "submit" /\ ~ev.raised /\ ev.job = 1 /\ ev.old_id # None
    /\ job_id[1] # ev.old_id
    /\ native[job_id[1]] = "PENDING"
    /\ last_state[1] # NoState /\ last_state[1][1] \in TerminalStates

\* ------------------------------------------------- properties, Spec2D (the top-up loop ends)
\* C33: in wait_to_2d_array_end, whenever the top-up loop goes on (the
\* number of active tracks is below min(array_size, unfinished tracks)) the
\* scan over the tracks finds an idle track with jobs left, and the round
\* submits one job: it raises or adds one active track, so the loop cannot
\* go round without progress.
D2TopUpFindsIdleTrack ==
    /\ []((call = "2d" /\ pc = "fleet_topup" /\ D2CanTopUp) =>
             /\ \E t \in 1..Len(jobs) : D2Idle(t)
             /\ ENABLED D2TopUp)
    /\ [][(call = "2d" /\ SubmitStep) =>
             \/ ev'.raised /\ pc' = "fleet_raised"
             \/ NumEle2d(current_active_job') = NumEle2d(current_active_job) + 1]_vars

\* the top-up loop goes on with the first track busy: the scan passes it
\* and finds the second
D2TopUpPassesBusyTrackSeen ==
    /\ call = "2d" /\ pc = "fleet_topup" /\ D2CanTopUp
    /\ Len(jobs) = 2
    /\ Len(current_active_job[1]) = 1
    /\ D2Idle(2)

\* ------------------------------------------------- properties, SpecRun (the waits)
\* C34: run_command waits wait_time only between two attempts: a call that
\* has made m attempts and returned or raised the command's error has slept
\* m - 1 times.
RunSleepsOnlyBetweenAttempts ==
    (rc.pc = "done" /\ rc.outcome \in {"returned", "raised_error"}) =>
        rc.sleeps = Len(rc.attempts) - 1

\* ------------------------------------------------- config_job
\* A str is a sequence of tokens, one of which is the line terminator; a
\* list is a sequence of strs; a dict is a sequence of <<key, value>> in
\* insertion order. An argument carries its Python type in kind.
NL == "\n"
AsList(v) == [kind |-> "list", v |-> v]
AsStr(v) == [kind |-> "str", v |-> v]
AsDict(v) == [kind |-> "dict", v |-> v]

\* os.linesep.join(q)
RECURSIVE LinesepJoin(_)
LinesepJoin(q) ==
    IF q = <<>> THEN <<>>
    ELSE IF Len(q) = 1 THEN q[1]
    ELSE q[1] \o <<NL>> \o LinesepJoin(Tail(q))

\* _get_command_str, for a list and for a str
GetCommandStrListBare(cmd) ==
    IF cmd.kind = "list" THEN LinesepJoin(cmd.v) ELSE cmd.v \o <<NL>>
GetCommandStr(cmd) ==
    IF cmd.kind = "list" THEN LinesepJoin(cmd.v) \o <<NL>> ELSE cmd.v \o <<NL>>

\* list(env.keys()) and env[key]
DictKeys(d) == [k \in 1..Len(d) |-> d[k][1]]
DictGet(d, key) == d[CHOOSE k \in 1..Len(d) : d[k][1] = key][2]

\* _get_env_str for a dict: the keys it accepts
EnvKeysAcceptedHeadFirst(keys) == keys = <<"head", "tail">>
EnvKeysAccepted(keys) == keys = <<"head", "tail">> \/ keys = <<"tail", "head">>

\* deepcopy(env): the reference of the object the loop then works on, in a
\* heap that holds the caller's mapping at reference o
Deepcopy(heap, o) == Len(heap) + 1

\* _get_env_str for a dict: the heap after `env = deepcopy(env)` and
\* `for i in env: env[i] += os.linesep`
EnvHeapAfter(heap) ==
    LET ref == Deepcopy(heap, 1)
        copied == IF ref > Len(heap) THEN Append(heap, heap[1]) ELSE heap
    IN  [copied EXCEPT ![ref] =
            [k \in 1..Len(@) |-> <<@[k][1], @[k][2] \o <<NL>>>>]]

\* _get_env_str: what it returns (for a dict, the object deepcopy made)
GetEnvStr(env, heap) ==
    CASE env.kind = "list" -> AsStr(LinesepJoin(env.v) \o <<NL>>)
      [] env.kind = "str" -> AsStr(env.v \o <<NL>>)
      [] env.kind = "dict" -> AsDict(EnvHeapAfter(heap)[Deepcopy(heap, 1)])

\* cluster.parser_resource_str(res): the interpreter line and one directive
\* line per keyword
RECURSIVE ParserResourceStr(_)
ParserResourceStr(res) ==
    IF res = <<>> THEN <<"#!/bin/bash", NL>>
    ELSE ParserResourceStr(SubSeq(res, 1, Len(res) - 1))
            \o <<"#SBATCH", res[Len(res)][1], res[Len(res)][2], NL>>

\* _get_res_str, for a dict and for a str
GetResStr(res) == IF res.kind = "dict" THEN ParserResourceStr(res.v) ELSE res.v

\* f"# {eh_config['system.CHILDREN_SCRIPT_WATERMARK']}{os.linesep}"
Watermark == <<"#", "CHILDREN_SCRIPT_WATERMARK", NL>>

\* _get_sub_script_str, for env_str a str and for env_str a dict
GetSubScriptStrCommandsFirst(command_str, env_str, res_str, watermark) ==
    IF env_str.kind = "dict"
    THEN LinesepJoin(<<res_str, watermark, command_str,
                       DictGet(env_str.v, "head"), DictGet(env_str.v, "tail")>>)
    ELSE LinesepJoin(<<res_str, watermark, command_str, env_str.v>>)
GetSubScriptStr(command_str, env_str, res_str, watermark) ==
    IF env_str.kind = "dict"
    THEN LinesepJoin(<<res_str, watermark, DictGet(env_str.v, "head"),
                       command_str, DictGet(env_str.v, "tail")>>)
    ELSE LinesepJoin(<<res_str, watermark, env_str.v, command_str>>)

\* the script config_job compiles from its arguments
ConfigScript(commands, env_settings, res_keywords, heap) ==
    GetSubScriptStr(GetCommandStr(commands), GetEnvStr(env_settings, heap),
                    GetResStr(res_keywords), Watermark)

\* _get_env_str raises KeyError
ConfigRaises(env_settings) ==
    env_settings.kind = "dict" /\ ~EnvKeysAccepted(DictKeys(env_settings.v))

\* config_job(commands, cluster, env_settings, res_keywords)
ConfigJob ==
    /\ cfg.pc = "call"
    /\ cfg' = IF ConfigRaises(cfg.env_settings)
              THEN [cfg EXCEPT !.pc = "done", !.outcome = "KeyError"]
              ELSE [cfg EXCEPT
                      !.pc = "done", !.outcome = "job",
                      !.heap = IF cfg.env_settings.kind = "dict"
                               THEN EnvHeapAfter(cfg.heap) ELSE cfg.heap,
                      !.sub_script_str =
                          ConfigScript(cfg.commands, cfg.env_settings,
                                       cfg.res_keywords, cfg.heap)]
    /\ UNCHANGED <<job_id, last_state, sub_script_path, native, owner, files,
                   idLog, logLevel, cluster, rc, sweep, ev, pc, waitVars,
                   fleetVars>>

\* the arguments: lists of up to MaxLen one-token lines, the strs that hold
\* the same lines, dicts with several key sets, resource mappings and the
\* text the cluster renders for them
LineLists(tokens) == UNION {[1..n -> {<<t>> : t \in tokens}] : n \in 0..MaxLen}
\* lines given as a list, or as the str that holds them
LinesArg(kind, lines) ==
    IF kind = "list" THEN AsList(lines) ELSE AsStr(LinesepJoin(lines))
EnvKeySeqs == {<<"head", "tail">>, <<"tail", "head">>, <<"head">>, <<"tail">>,
               <<>>, <<"head", "tail", "mid">>, <<"mid", "tail">>}
EnvDicts == {[k \in 1..Len(ks) |-> <<ks[k], <<"export", ks[k]>>>>] : ks \in EnvKeySeqs}
ResDicts == {<<>>, <<<<"partition", "debug">>>>,
             <<<<"partition", "debug">>, <<"account", "xxx">>>>}
\* resource keywords given as a dict, or as the text rendered for it
ResArg(kind, res) ==
    IF kind = "dict" THEN AsDict(res) ELSE AsStr(ParserResourceStr(res))

InitConfig ==
    /\ \E ck \in {"list", "str"}, cl \in LineLists({"c1", "c2"}),
          ek \in {"list", "str", "dict"}, el \in LineLists({"e1", "e2"}),
          ed \in EnvDicts, rk \in {"dict", "str"}, rd \in ResDicts :
          cfg = [NoConfig EXCEPT
                   !.pc = "call",
                   !.commands = LinesArg(ck, cl),
                   !.env_settings = IF ek = "dict" THEN AsDict(ed)
                                    ELSE LinesArg(ek, el),
                   !.res_keywords = ResArg(rk, rd),
                   !.heap = IF ek = "dict" THEN <<ed>> ELSE <<>>]
    /\ job_id = [j \in Jobs |-> None]
    /\ last_state = [j \in Jobs |-> NoState]
    /\ sub_script_path = [j \in Jobs |-> NoPath]
    /\ native = [id \in Ids |-> "NONE"]
    /\ owner = [id \in Ids |-> 0]
    /\ files = {}
    /\ idLog = <<>>
    /\ logLevel = "INFO"
    /\ cluster = [j \in Jobs |-> DefaultCluster]
    /\ rc = NoRun
    /\ sweep = <<>>
    /\ ev = NoEv
    /\ pc = "idle"
    /\ waitJob = 0
    /\ waitTrace = <<>>
    /\ NoFleet

NextConfig == ConfigJob

SpecConfig == InitConfig /\ [][NextConfig]_vars

\* ------------------------------------------------- properties, SpecConfig
\* config_job returned a job
Configured == cfg.pc = "done" /\ cfg.outcome = "job"

\* the tokens of a str that are not line terminators, in order
Content(str) == SelectSeq(str, LAMBDA t : t # NL)

\* the content of an argument as given by the caller
GivenContent(arg) ==
    CASE arg.kind = "list" -> Flat(arg.v)
      [] arg.kind = "str" -> Content(arg.v)
      [] OTHER -> <<>>

\* C35: the compiled script holds, in this order, the resource directives,
\* the watermark line, the environment lines (the head when env_settings is
\* a head/tail pair), the commands in the order given and, only for a pair,
\* the tail.
ScriptBlocksInOrder ==
    Configured =>
       LET paired == cfg.env_settings.kind = "dict"
           res == IF cfg.res_keywords.kind = "dict"
                  THEN Content(ParserResourceStr(cfg.res_keywords.v))
                  ELSE Content(cfg.res_keywords.v)
           head == IF paired THEN DictGet(cfg.env_settings.v, "head")
                   ELSE GivenContent(cfg.env_settings)
           tail == IF paired THEN DictGet(cfg.env_settings.v, "tail") ELSE <<>>
       IN  Content(cfg.sub_script_str) =
              res \o Content(Watermark) \o head
                  \o GivenContent(cfg.commands) \o tail

\* a script of two commands between the head and the tail of a pair
ScriptWithHeadAndTailSeen ==
    /\ Configured
    /\ cfg.commands = AsList(<<<<"c1">>, <<"c2">>>>)
    /\ cfg.env_settings.kind = "dict"
    /\ DictKeys(cfg.env_settings.v) = <<"tail", "head">>
    /\ cfg.res_keywords.kind = "dict" /\ Len(cfg.res_keywords.v) = 2

\* the pre-rendered str equal to a structured argument: the lines joined by
\* the line terminator, the text the cluster renders for a resource mapping
\* (a head/tail pair has no str form)
Prerendered(arg, is_res) ==
    CASE arg.kind = "list" -> AsStr(LinesepJoin(arg.v))
      [] arg.kind = "dict" /\ is_res -> AsStr(ParserResourceStr(arg.v))
      [] OTHER -> arg

\* C36: config_job compiles the same script from structured arguments (lists
\* of lines, a resource mapping) as from the pre-rendered strs equal to them.
StructuredAndRenderedAgree ==
    Configured =>
       cfg.sub_script_str =
          ConfigScript(Prerendered(cfg.commands, FALSE),
                       Prerendered(cfg.env_settings, FALSE),
                       Prerendered(cfg.res_keywords, TRUE),
                       cfg.heap)

\* a script compiled from two commands and two environment lines given as
\* lists and two resource keywords given as a mapping
ScriptFromStructuredSeen ==
    /\ Configured
    /\ cfg.commands = AsList(<<<<"c1">>, <<"c2">>>>)
    /\ cfg.env_settings = AsList(<<<<"e2">>, <<"e1">>>>)
    /\ cfg.res_keywords.kind = "dict" /\ Len(cfg.res_keywords.v) = 2

\* ------------------------------------------------- properties, SpecJob (the deployed script)
\* C37: a submit() that reaches the deployment writes the script to a path
\* at which no file was before the call, no file of the directory goes away,
\* and the path it records is that new one: the paths of any two
\* submissions, a resubmission of the same job included, differ.
SubmitDeploysToFreshPath ==
    /\ [][(SubmitStep /\ ~ev'.raised) =>
             /\ sub_script_path'[ev'.job] \notin files
             /\ files' = files \cup {sub_script_path'[ev'.job]}
             /\ ev'.path = sub_script_path'[ev'.job]]_vars
    /\ [](\A j \in Jobs : job_id[j] # None => sub_script_path[j] \in files)
    /\ [](\A m, n \in 1..Len(idLog) :
             /\ idLog[m][2] \in files
             /\ m # n => idLog[m][2] # idLog[n][2])

\* the job was submitted a second time with the same script path given and
\* its script went to the next free name
ResubmittedToNextNameSeen ==
    /\ ev.op = "submit" /\ ~ev.raised /\ ev.old_id # None
    /\ ConfPath(1) \in files
    /\ ev.path # ConfPath(1) /\ ev.path[1] = ConfPath(1)[1]
    /\ Len(idLog) = 2

\* C38: config_job takes a mapping for env_settings only when its keys are
\* exactly head and tail, in either order; for any other key set it raises
\* KeyError and builds no job; either way the caller's mapping is as it was
\* given (the line terminators are added to a copy).
EnvPairNeedsHeadAndTail ==
    (cfg.pc = "done" /\ cfg.env_settings.kind = "dict") =>
       /\ cfg.outcome = "job" <=>
             Range(DictKeys(cfg.env_settings.v)) = {"head", "tail"}
       /\ cfg.outcome # "job" =>
             cfg.outcome = "KeyError" /\ cfg.sub_script_str = <<>>
       /\ cfg.heap[1] = cfg.env_settings.v

\* a pair given tail first was taken: the copy holds the terminated lines,
\* the caller's mapping the lines as given
EnvPairCopiedSeen ==
    /\ Configured
    /\ cfg.env_settings.kind = "dict"
    /\ DictKeys(cfg.env_settings.v) = <<"tail", "head">>
    /\ Len(cfg.heap) = 2
    /\ DictGet(cfg.heap[2], "head") = DictGet(cfg.heap[1], "head") \o <<NL>>

====
